---- MODULE Spec2Model ----
(***************************************************************************)
(* Two-factor student verification: the verification flow controller       *)
(* (useVerificationFlow), the ID acquisition loop (useIDScannerLogic), the *)
(* face verification loop (useFaceVerification, in its distance-based and  *)
(* cosine-based versions) and their composition in VerificationApp.        *)
(*                                                                         *)
(* Strings that the code inspects character by character (OCR text,        *)
(* student identifiers) are sequences of one-character strings; status and *)
(* error messages are sequences of tokens.  An absent object (null) is the *)
(* record null; an absent string (null) is NoString.  No operation of the  *)
(* system produces an empty string where null is told apart from it.       *)
(* Scores, similarities and descriptor components are in hundredths.       *)
(***************************************************************************)
EXTENDS Integers, Sequences, FiniteSets, TLC

VARIABLES
    \* useVerificationFlow state
    currentStep, studentId, studentData, verificationResult,
    \* the student registry (module-level STUDENTS object)
    STUDENTS,
    \* environment: the clock read by Date.now(), whether VerificationApp is
    \* mounted, and which version of useFaceVerification is built in
    now, appMounted, policy,
    \* history: the last controller handler that ran
    lastCall,
    \* the useIDScannerLogic instance of the mounted (or last mounted) IDScanner
    idHook,
    \* the useFaceVerification instance of the mounted (or last mounted)
    \* FaceVerifier
    faceHook,
    \* the component VerificationApp rendered at its last commit
    view,
    \* history: the last call of a function that was made on its own, with
    \* its arguments and its result
    evaluated,
    \* the FaceRecognition component of the face-only front-end (Fsite.jsx)
    fsite

ctrlVars == <<currentStep, studentId, studentData, verificationResult>>
envVars == <<STUDENTS, now, appMounted, policy, evaluated, fsite>>
hookVars == <<idHook, faceHook>>
vars == <<ctrlVars, envVars, lastCall, hookVars, view>>

null == [isNull |-> TRUE]
NoString == << >>
\* no function has been called on its own
NotEvaluated == [fn |-> "none"]

(***************************************************************************)
(* Bounds of the model                                                     *)
(***************************************************************************)
\* number of clock steps the model follows
MaxClockSteps == 7
\* number of detection calls that may be outstanding at once
MaxInFlight == 2
\* number of calls of startScanning and stopScanning the component makes
MaxCalls == 3
\* number of identifiers reported and of unsuccessful attempts that are
\* followed when the component makes such calls
MaxReports == 2
MaxScans == 3

(***************************************************************************)
(* Characters and strings                                                  *)
(***************************************************************************)
Digits == {"0", "1", "2", "3", "4", "5", "6", "7", "8", "9"}

ID_2201521 == <<"2", "2", "0", "1", "5", "2", "1">>
ID_2201547 == <<"2", "2", "0", "1", "5", "4", "7">>
ID_20002547 == <<"2", "0", "0", "0", "2", "5", "4", "7">>
ID_9999999 == <<"9", "9", "9", "9", "9", "9", "9">>

(***************************************************************************)
(* Registry (services/testDB)                                              *)
(***************************************************************************)
\* the registry as documented (7-digit sample identifiers)
STUDENTS_documented ==
    (ID_2201521 :> [id |-> ID_2201521, name |-> "John Paul",
                    department |-> "Computer Science", year |-> "Junior",
                    faceImage |-> "/uploads/mememe.jpg",
                    email |-> "john.doe@university.edu"])
    @@
    (ID_2201547 :> [id |-> ID_2201547, name |-> "Jane Smith",
                    department |-> "Engineering", year |-> "Senior",
                    faceImage |-> "/uploads/jungkok.jpg",
                    email |-> "jane.smith@university.edu"])

\* the second version of the registry module in the repository
STUDENTS_second ==
    (ID_20002547 :> [id |-> ID_20002547, name |-> "John Paul",
                     department |-> "CCICT", year |-> "4th year",
                     faceImage |-> "/uploads/mememe.jpg",
                     email |-> "john.doe@university.edu"])
    @@
    (ID_2201547 :> [id |-> ID_2201547, name |-> "Jane Smith",
                    department |-> "Engineering", year |-> "Senior",
                    faceImage |-> "/uploads/jungkok.jpg",
                    email |-> "jane.smith@university.edu"])

RegistryVersions == {STUDENTS_documented, STUDENTS_second}

\* a lookup that finds nobody
getStudentByID_nobody(id) == null

\* STUDENTS[studentId], or null if there is none
getStudentByID(id) ==
    IF id \in DOMAIN STUDENTS THEN STUDENTS[id] ELSE null

(***************************************************************************)
(* Clock                                                                   *)
(***************************************************************************)
\* Date.now() when the application starts; any value far above the throttle
ClockStart == 100000
\* milliseconds between two clock values of the model; no detection interval
\* is longer, so that an interval timer is due again at every clock value,
\* and both throttles elapse twice within MaxClockSteps steps
ClockStep == 2000

\* useFaceVerification configuration, per version of the hook
MATCH_THRESHOLD == IF policy = "distance" THEN 58 ELSE 50
DETECTION_INTERVAL == IF policy = "distance" THEN 1000 ELSE 300
MATCHING_THROTTLE == IF policy = "distance" THEN 6000 ELSE 4000

(***************************************************************************)
(* Verification flow controller (useVerificationFlow)                      *)
(***************************************************************************)
SCANNING_ID == "scanning_id"
VERIFYING_FACE == "verifying_face"
SUCCESS == "success"
FAILED_ID == "failed_id"
FAILED_FACE == "failed_face"
FAILED_MISMATCH == "failed_mismatch"

VERIFICATION_STATES ==
    {SCANNING_ID, VERIFYING_FACE, SUCCESS, FAILED_ID, FAILED_FACE, FAILED_MISMATCH}

TerminalStates == {SUCCESS, FAILED_ID, FAILED_FACE, FAILED_MISMATCH}

\* handleIDDetected with the found branch forgetting setStudentData
handleIDDetected_noData(detectedId) ==
    LET student == getStudentByID(detectedId) IN
    IF ~appMounted
    THEN UNCHANGED <<ctrlVars, lastCall>>
    ELSE /\ lastCall' = [op |-> "handleIDDetected", arg |-> detectedId,
                         from |-> currentStep]
         /\ IF student = null
            THEN /\ currentStep' = FAILED_ID
                 /\ studentId' = detectedId
                 /\ UNCHANGED <<studentData, verificationResult>>
            ELSE /\ studentId' = detectedId
                 /\ currentStep' = VERIFYING_FACE
                 /\ UNCHANGED <<studentData, verificationResult>>

\* handleIDDetected with the found branch forgetting setStudentId
handleIDDetected_noId(detectedId) ==
    LET student == getStudentByID(detectedId) IN
    IF ~appMounted
    THEN UNCHANGED <<ctrlVars, lastCall>>
    ELSE /\ lastCall' = [op |-> "handleIDDetected", arg |-> detectedId,
                         from |-> currentStep]
         /\ IF student = null
            THEN /\ currentStep' = FAILED_ID
                 /\ studentId' = detectedId
                 /\ UNCHANGED <<studentData, verificationResult>>
            ELSE /\ studentData' = student
                 /\ currentStep' = VERIFYING_FACE
                 /\ UNCHANGED <<studentId, verificationResult>>

\* state updates on an unmounted component are dropped by React
handleIDDetected(detectedId) ==
    LET student == getStudentByID(detectedId) IN
    IF ~appMounted
    THEN UNCHANGED <<ctrlVars, lastCall>>
    ELSE /\ lastCall' = [op |-> "handleIDDetected", arg |-> detectedId,
                         from |-> currentStep]
         /\ IF student = null
            THEN /\ currentStep' = FAILED_ID
                 /\ studentId' = detectedId
                 /\ UNCHANGED <<studentData, verificationResult>>
            ELSE /\ studentId' = detectedId
                 /\ studentData' = student
                 /\ currentStep' = VERIFYING_FACE
                 /\ UNCHANGED verificationResult

\* handleFaceVerified storing the result as it was passed
handleFaceVerified_resultOnly(result) ==
    IF ~appMounted
    THEN UNCHANGED <<ctrlVars, lastCall>>
    ELSE /\ lastCall' = [op |-> "handleFaceVerified", arg |-> result,
                         from |-> currentStep]
         /\ verificationResult' = result
         /\ currentStep' = SUCCESS
         /\ UNCHANGED <<studentId, studentData>>

\* handleFaceVerified reading the studentId of the first render
handleFaceVerified_firstRender(result) ==
    IF ~appMounted
    THEN UNCHANGED <<ctrlVars, lastCall>>
    ELSE /\ lastCall' = [op |-> "handleFaceVerified", arg |-> result,
                         from |-> currentStep]
         /\ verificationResult' =
                [f \in (DOMAIN result) \cup {"timestamp", "studentId"} |->
                    IF f = "timestamp" THEN now
                    ELSE IF f = "studentId" THEN NoString
                    ELSE result[f]]
         /\ currentStep' = SUCCESS
         /\ UNCHANGED <<studentId, studentData>>

\* {...result, timestamp: new Date().toISOString(), studentId: studentId}
handleFaceVerified(result) ==
    IF ~appMounted
    THEN UNCHANGED <<ctrlVars, lastCall>>
    ELSE /\ lastCall' = [op |-> "handleFaceVerified", arg |-> result,
                         from |-> currentStep]
         /\ verificationResult' =
                [f \in (DOMAIN result) \cup {"timestamp", "studentId"} |->
                    IF f = "timestamp" THEN now
                    ELSE IF f = "studentId" THEN studentId
                    ELSE result[f]]
         /\ currentStep' = SUCCESS
         /\ UNCHANGED <<studentId, studentData>>

handleFaceFailed(reason) ==
    IF ~appMounted
    THEN UNCHANGED <<ctrlVars, lastCall>>
    ELSE /\ lastCall' = [op |-> "handleFaceFailed", arg |-> reason,
                         from |-> currentStep]
         /\ currentStep' = FAILED_FACE
         /\ UNCHANGED <<studentId, studentData, verificationResult>>

\* reset forgetting setVerificationResult(null)
reset_keepsResult ==
    IF ~appMounted
    THEN UNCHANGED <<ctrlVars, lastCall>>
    ELSE /\ lastCall' = [op |-> "reset", arg |-> null, from |-> currentStep]
         /\ currentStep' = SCANNING_ID
         /\ studentId' = NoString
         /\ studentData' = null
         /\ UNCHANGED verificationResult

reset ==
    IF ~appMounted
    THEN UNCHANGED <<ctrlVars, lastCall>>
    ELSE /\ lastCall' = [op |-> "reset", arg |-> null, from |-> currentStep]
         /\ currentStep' = SCANNING_ID
         /\ studentId' = NoString
         /\ studentData' = null
         /\ verificationResult' = null


(***************************************************************************)
(* Text reconciliation (useIDScannerLogic.findValidStudentId)              *)
(***************************************************************************)
DigitValue(c) ==
    CASE c = "0" -> 0 [] c = "1" -> 1 [] c = "2" -> 2 [] c = "3" -> 3
      [] c = "4" -> 4 [] c = "5" -> 5 [] c = "6" -> 6 [] c = "7" -> 7
      [] c = "8" -> 8 [] c = "9" -> 9

RECURSIVE KeyNumber(_)
KeyNumber(key) ==
    IF key = << >> THEN 0
    ELSE 10 * KeyNumber(SubSeq(key, 1, Len(key) - 1)) + DigitValue(key[Len(key)])

\* Object.keys() lists integer-like keys in ascending numeric order; every
\* key of the registry is a digit string without a leading zero
RECURSIVE KeysInOrder(_)
KeysInOrder(keys) ==
    IF keys = {} THEN << >>
    ELSE LET first == CHOOSE k \in keys :
                          \A other \in keys : KeyNumber(k) <= KeyNumber(other)
         IN <<first>> \o KeysInOrder(keys \ {first})

getAllValidStudentIDs == KeysInOrder(DOMAIN STUDENTS)

\* text.replace(/\D/g, '')
digitsOnly(text) == SelectSeq(text, LAMBDA c : c \in Digits)

\* a search that only looks at the start of the string
StringIncludes_atStart(s, sub) ==
    Len(sub) <= Len(s) /\ SubSeq(s, 1, Len(sub)) = sub

\* String.prototype.includes
StringIncludes(s, sub) ==
    \E i \in 0..(Len(s) - Len(sub)) : SubSeq(s, i + 1, i + Len(sub)) = sub

\* a lookup that finds everything
ArrayIncludes_always(arr, x) == TRUE

\* Array.prototype.includes
ArrayIncludes(arr, x) == \E i \in 1..Len(arr) : arr[i] = x

\* s.substring(from, to) for 0 <= from <= to
Substring(s, from, to) ==
    SubSeq(s, from + 1, IF to <= Len(s) THEN to ELSE Len(s))

\* the last element instead of the first
Least_greatest(S) == CHOOSE x \in S : \A y \in S : x >= y

Least(S) == CHOOSE x \in S : \A y \in S : x <= y

\* the first seven digits taken without looking them up
FirstSevenIsValid_unchecked(validIds, firstSeven) == TRUE

\* validIds.includes(firstSeven)
FirstSevenIsValid(validIds, firstSeven) == ArrayIncludes(validIds, firstSeven)

findValidStudentId(text) ==
    LET validIds == getAllValidStudentIDs
        digits == digitsOnly(text)
        exact == {i \in 1..Len(validIds) : StringIncludes(digits, validIds[i])}
        windows == {i \in 0..(Len(digits) - 7) :
                       ArrayIncludes(validIds, Substring(digits, i, i + 7))}
        firstSeven == Substring(digits, 0, 7)
    IN  IF exact # {} THEN validIds[Least(exact)]
        ELSE IF Len(digits) >= 7 /\ windows # {}
             THEN Substring(digits, Least(windows), Least(windows) + 7)
        ELSE IF Len(digits) >= 7 /\ FirstSevenIsValid(validIds, firstSeven)
             THEN firstSeven
        ELSE NoString

(***************************************************************************)
(* ID acquisition loop (useIDScannerLogic)                                 *)
(***************************************************************************)
MAX_ATTEMPTS == 60

\* a state update of the hook; React drops it once the component is unmounted
IdSetState(h, field, value) ==
    IF h.mounted THEN [h EXCEPT ![field] = value] ELSE h

\* the hook of a component that is not mounted and was never initialised
IdUnmounted ==
    [mounted |-> FALSE, initPc |-> "none",
     stream |-> "none", streamRef |-> FALSE,
     modelRef |-> FALSE, ocrWorkerRef |-> "none",
     scanInterval |-> FALSE, timers |-> 0,
     isProcessing |-> FALSE, scanCount |-> 0,
     inFlight |-> 0,
     isReady |-> FALSE, error |-> NoString, status |-> <<"Initializing...">>,
     lastText |-> NoString, reported |-> 0]

\* a freshly mounted IDScanner: the init effect has called getUserMedia
IdMount == [IdUnmounted EXCEPT !.mounted = TRUE, !.initPc = "camera"]

\* initCamera whose failure does not stop init
IdCameraSettled_goesOn(h, granted) ==
    IF ~granted
    THEN [IdSetState(h, "error",
                     <<"Camera access denied. Please enable camera permissions.">>)
             EXCEPT !.initPc = "models"]
    ELSE IF h.mounted
         THEN [h EXCEPT !.stream = "open", !.streamRef = TRUE,
                        !.initPc = "metadata"]
         ELSE [h EXCEPT !.stream = "open", !.initPc = "aborted"]

\* initCamera after getUserMedia settles; videoRef.current is set exactly
\* while the component is mounted
IdCameraSettled(h, granted) ==
    IF ~granted
    THEN [IdSetState(h, "error",
                     <<"Camera access denied. Please enable camera permissions.">>)
             EXCEPT !.initPc = "failed"]
    ELSE IF h.mounted
         THEN [h EXCEPT !.stream = "open", !.streamRef = TRUE,
                        !.initPc = "metadata"]
         ELSE [h EXCEPT !.stream = "open", !.initPc = "aborted"]

\* onloadedmetadata: initCamera returns true and init goes on to initModels
IdMetadataDone(h) ==
    [IdSetState(h, "status", <<"Loading AI models...">>) EXCEPT !.initPc = "models"]

\* stopScanning without its clearInterval
stopScanning_keepsTimer(h) == [h EXCEPT !.isProcessing = FALSE]

\* scanInterval tells whether scanIntervalRef.current holds a timer; timers
\* counts the interval timers that were set and not cleared
stopScanning(h) ==
    [h EXCEPT !.timers = IF h.scanInterval THEN @ - 1 ELSE @,
              !.scanInterval = FALSE, !.isProcessing = FALSE]

\* the guard of scanFrame without its isProcessingRef test
ScanFrameSkips_noFlag(h) ==
    ~h.mounted \/ ~h.modelRef \/ h.ocrWorkerRef = "none"

\* isProcessingRef.current || !videoRef.current || !modelRef.current ||
\* !ocrWorkerRef.current
ScanFrameSkips(h) ==
    h.isProcessing \/ ~h.mounted \/ ~h.modelRef \/ h.ocrWorkerRef = "none"

\* scanFrame up to its first await; ready is video.readyState >= 2
scanFrameBegin(h, ready) ==
    IF ScanFrameSkips(h)
    THEN h
    ELSE IF ~ready
         THEN h
         ELSE [IdSetState(h, "status", <<"Scanning for ID card...">>)
                  EXCEPT !.isProcessing = TRUE, !.inFlight = @ + 1]

startScanning(h, ready) ==
    LET h1 == [IdSetState(h, "status", <<"Scanning for student ID...">>)
                  EXCEPT !.scanCount = 0, !.isProcessing = FALSE]
    IN  [scanFrameBegin(h1, ready) EXCEPT !.scanInterval = TRUE,
                                          !.timers = @ + 1]

\* init after initModels settles; outcome is "ok", or the step that threw.
\* IDScanner's effect calls startScanning as soon as isReady is true
IdModelsSettled(h, outcome, ready) ==
    IF outcome = "ok"
    THEN LET h1 == [h EXCEPT !.modelRef = TRUE, !.ocrWorkerRef = "live"]
         IN  IF ~h1.mounted
             THEN [h1 EXCEPT !.initPc = "aborted"]
             ELSE startScanning(
                      [h1 EXCEPT !.isReady = TRUE, !.status = <<"Ready to scan">>,
                                 !.initPc = "ready"],
                      ready)
    ELSE [IdSetState(h, "error", <<"Failed to load AI models">>)
             EXCEPT !.modelRef = (outcome = "worker_failed"),
                    !.initPc = "failed"]

\* scanFrame without its finally block
scanFrameThrow_keepsFlag(h) == [h EXCEPT !.inFlight = @ - 1]

\* scanFrame when detect or recognize throws: catch, then finally
scanFrameThrow(h) == [h EXCEPT !.isProcessing = FALSE, !.inFlight = @ - 1]

\* the budget test, one attempt late
AttemptsExhausted_late(h) == h.scanCount > MAX_ATTEMPTS

\* scanCountRef.current >= MAX_ATTEMPTS
AttemptsExhausted(h) == h.scanCount >= MAX_ATTEMPTS

\* scanFrame after recognize returned rawText, up to the end of finally
scanFrameEnd(h, rawText) ==
    LET found == findValidStudentId(rawText)
        seen == [h EXCEPT !.lastText = rawText, !.inFlight = @ - 1]
    IN  IF found # NoString
        THEN [IdSetState(stopScanning(seen), "status", <<"ID detected!">>)
                 EXCEPT !.reported = @ + 1, !.isProcessing = FALSE]
        ELSE LET counted == [seen EXCEPT !.scanCount = @ + 1]
                 shown == IdSetState(counted, "status",
                              <<"Scanning...", counted.scanCount, MAX_ATTEMPTS>>)
                 ended ==
                     IF AttemptsExhausted(shown)
                     THEN IdSetState(
                              IdSetState(stopScanning(shown), "error",
                                  <<"Could not detect student ID. Please try again.">>),
                              "status", <<"Scan timeout">>)
                     ELSE shown
             IN  [ended EXCEPT !.isProcessing = FALSE]

\* the cleanup without the release of the camera stream
IdCleanup_keepsStream(h) ==
    LET stopped == stopScanning([h EXCEPT !.mounted = FALSE])
    IN  [stopped EXCEPT
            !.ocrWorkerRef = IF @ # "none" THEN "terminated" ELSE @,
            !.modelRef = FALSE]

\* the cleanup of the init effect
IdCleanup(h) ==
    LET stopped == stopScanning([h EXCEPT !.mounted = FALSE])
    IN  [stopped EXCEPT
            !.stream = IF h.streamRef /\ h.stream = "open" THEN "stopped" ELSE @,
            !.ocrWorkerRef = IF @ # "none" THEN "terminated" ELSE @,
            !.modelRef = FALSE]

\* what is left of the hook of a component that React has removed: its state
\* (useState) is gone, and its refs (useRef) can only be reached by a
\* callback that is still pending
IdDiscard(h) ==
    LET gone == [h EXCEPT !.isReady = FALSE, !.error = NoString,
                          !.status = <<"Initializing...">>]
    IN  IF h.inFlight = 0 /\ h.initPc \notin {"camera", "metadata", "models"}
        THEN [gone EXCEPT !.scanCount = 0, !.lastText = NoString,
                          !.modelRef = FALSE, !.ocrWorkerRef = "none",
                          !.streamRef = FALSE, !.initPc = "none"]
        ELSE gone

(***************************************************************************)
(* FaceRecognition of the face-only front-end (Fsite.jsx)                  *)
(***************************************************************************)
\* period of the detection interval, in ms
FsiteInterval == 4000
\* least time between two detection calls, in ms
FsiteThrottle == 4000

\* closure is what the callbacks created by the effect with the empty
\* dependency list read for the state isProcessing: its value at the render
\* in which the effect ran
FsiteUnmounted ==
    [mounted |-> FALSE, initPc |-> "none",
     detectionInterval |-> FALSE, nextTick |-> 0,
     lastDetectionTime |-> 0, inFlight |-> 0,
     isProcessing |-> FALSE, closure |-> [isProcessing |-> FALSE],
     hasVerified |-> FALSE, faceDetected |-> FALSE, isPopupVisible |-> FALSE]

\* first render (useState(false)) and the effect: init is running
FsiteMount ==
    [FsiteUnmounted EXCEPT !.mounted = TRUE, !.initPc = "init",
                           !.closure = [isProcessing |-> FsiteUnmounted.isProcessing]]

\* init after its awaits and its timeout; started tells whether it reached
\* startFaceDetection, which sets the detection interval
FsiteInitSettled(h, started, clock) ==
    IF started /\ h.mounted
    THEN [h EXCEPT !.initPc = "done", !.detectionInterval = TRUE,
                   !.nextTick = clock + FsiteInterval]
    ELSE [h EXCEPT !.initPc = "done"]

\* the detection interval callback up to its await
FsiteTickBegin(h, clock) ==
    LET waited == [h EXCEPT !.nextTick = @ + FsiteInterval]
    IN  IF ~h.mounted \/ h.closure.isProcessing
        THEN waited
        ELSE IF clock - h.lastDetectionTime < FsiteThrottle
             THEN waited
             ELSE [waited EXCEPT !.lastDetectionTime = clock,
                                 !.isProcessing = TRUE,
                                 !.inFlight = @ + 1]

\* what detectAllFaces and the comparison come to: no face, one face that
\* matches a reference, one that matches none, a frame that is not compared
\* (several faces, poor quality, no reference), or an exception
FsiteOutcomes == {"none", "match", "no_match", "not_compared", "throws"}

\* the detection interval callback after its await, with catch and finally
FsiteTickEnd(h, outcome) ==
    LET back == [h EXCEPT !.inFlight = @ - 1]
        seen ==
            IF outcome = "throws" \/ ~h.mounted
            THEN back
            ELSE IF outcome = "none"
                 THEN [back EXCEPT !.faceDetected = FALSE]
                 ELSE [back EXCEPT !.faceDetected = TRUE]
        matched ==
            IF outcome = "match" /\ h.mounted /\ ~h.hasVerified
            THEN [seen EXCEPT !.isPopupVisible = TRUE, !.hasVerified = TRUE,
                              !.detectionInterval = FALSE]
            ELSE seen
    IN  IF h.mounted THEN [matched EXCEPT !.isProcessing = FALSE] ELSE matched

\* the cleanup of the effect; the state of the component is gone
FsiteCleanup(h) ==
    [h EXCEPT !.mounted = FALSE, !.detectionInterval = FALSE,
              !.isProcessing = FALSE, !.hasVerified = FALSE,
              !.faceDetected = FALSE, !.isPopupVisible = FALSE]

(***************************************************************************)
(* Descriptor comparator                                                   *)
(***************************************************************************)
\* least r with r * r >= n
SqrtCeil(n) == CHOOSE r \in 0..n : r * r >= n /\ (r = 0 \/ (r - 1) * (r - 1) < n)

\* greatest r with r * r <= n
SqrtFloor(n) == CHOOSE r \in 0..n : r * r <= n /\ (r + 1) * (r + 1) > n

RECURSIVE SumOver(_, _)
SumOver(f, n) == IF n = 0 THEN 0 ELSE SumOver(f, n - 1) + f[n]

Max(a, b) == IF a >= b THEN a ELSE b

Abs(a) == IF a >= 0 THEN a ELSE 0 - a

\* Euclidean policy: max(0, 1 - distance), rounded down to hundredths
faceSimilarity(a, b) ==
    IF a = << >> \/ b = << >> \/ Len(a) # Len(b) THEN 0
    ELSE LET sum == SumOver([i \in 1..Len(a) |-> (a[i] - b[i]) * (a[i] - b[i])],
                            Len(a))
         IN  Max(0, 100 - SqrtCeil(sum))

\* cosine policy: (cos + 1) / 2, rounded down to hundredths; the descriptors
\* of the model have whole norms, so that the square roots are exact
cosineSimilarity(a, b) ==
    IF a = << >> \/ b = << >> \/ Len(a) # Len(b) THEN 0
    ELSE LET dot == SumOver([i \in 1..Len(a) |-> a[i] * b[i]], Len(a))
             normA == SumOver([i \in 1..Len(a) |-> a[i] * a[i]], Len(a))
             normB == SumOver([i \in 1..Len(a) |-> b[i] * b[i]], Len(a))
             denom == SqrtFloor(normA) * SqrtFloor(normB)
         IN  IF denom = 0 THEN 0
             ELSE ((100 * dot) \div denom + 100) \div 2

Similarity(a, b) ==
    IF policy = "distance" THEN faceSimilarity(a, b) ELSE cosineSimilarity(a, b)

(***************************************************************************)
(* Natural numbers of any size: the limbs of a number in base 2^15, least  *)
(* significant first, without leading zero limbs                           *)
(***************************************************************************)
LimbBits == 15
Base == 2 ^ LimbBits

RECURSIVE BFromInt(_)
BFromInt(n) == IF n = 0 THEN << >> ELSE <<n % Base>> \o BFromInt(n \div Base)

RECURSIVE BTrim(_)
BTrim(x) ==
    IF x = << >> THEN x
    ELSE IF x[Len(x)] = 0 THEN BTrim(SubSeq(x, 1, Len(x) - 1))
    ELSE x

Limb(x, i) == IF i <= Len(x) THEN x[i] ELSE 0

RECURSIVE BAddFrom(_, _, _, _)
BAddFrom(x, y, i, carry) ==
    IF i > Len(x) /\ i > Len(y)
    THEN IF carry = 0 THEN << >> ELSE <<carry>>
    ELSE LET s == Limb(x, i) + Limb(y, i) + carry
         IN  <<s % Base>> \o BAddFrom(x, y, i + 1, s \div Base)

BAdd(x, y) == BAddFrom(x, y, 1, 0)

RECURSIVE BSubFrom(_, _, _, _)
BSubFrom(x, y, i, borrow) ==
    IF i > Len(x) THEN << >>
    ELSE LET d == Limb(x, i) - Limb(y, i) - borrow
         IN  IF d < 0
             THEN <<d + Base>> \o BSubFrom(x, y, i + 1, 1)
             ELSE <<d>> \o BSubFrom(x, y, i + 1, 0)

\* x - y, for x >= y
BSub(x, y) == BTrim(BSubFrom(x, y, 1, 0))

RECURSIVE BCmpFrom(_, _, _)
BCmpFrom(x, y, i) ==
    IF i = 0 THEN 0
    ELSE IF x[i] < y[i] THEN -1
    ELSE IF x[i] > y[i] THEN 1
    ELSE BCmpFrom(x, y, i - 1)

\* -1, 0 or 1 as x is less than, equal to or greater than y
BCmp(x, y) ==
    IF Len(x) < Len(y) THEN -1
    ELSE IF Len(x) > Len(y) THEN 1
    ELSE BCmpFrom(x, y, Len(x))

RECURSIVE BMulSmallFrom(_, _, _, _)
BMulSmallFrom(x, k, i, carry) ==
    IF i > Len(x)
    THEN IF carry = 0 THEN << >> ELSE <<carry>>
    ELSE LET p == x[i] * k + carry
         IN  <<p % Base>> \o BMulSmallFrom(x, k, i + 1, p \div Base)

\* x * k, for a limb k
BMulSmall(x, k) == IF k = 0 THEN << >> ELSE BMulSmallFrom(x, k, 1, 0)

\* x * Base^n
BShiftLimbs(x, n) == IF x = << >> THEN x ELSE [i \in 1..n |-> 0] \o x

RECURSIVE BMulFrom(_, _, _)
BMulFrom(x, y, i) ==
    IF i > Len(y) THEN << >>
    ELSE BAdd(BShiftLimbs(BMulSmall(x, y[i]), i - 1), BMulFrom(x, y, i + 1))

BMul(x, y) == BMulFrom(x, y, 1)

\* x * 2^k
BShl(x, k) == BShiftLimbs(BMulSmall(x, 2 ^ (k % LimbBits)), k \div LimbBits)

\* x \div 2^k
BShr(x, k) ==
    IF Len(x) <= k \div LimbBits THEN << >>
    ELSE LET r == k % LimbBits
             y == SubSeq(x, k \div LimbBits + 1, Len(x))
         IN  BTrim([i \in 1..Len(y) |->
                       (y[i] \div 2 ^ r)
                       + (Limb(y, i + 1) % 2 ^ r) * 2 ^ (LimbBits - r)])

RECURSIVE BitLenSmall(_)
BitLenSmall(n) == IF n = 0 THEN 0 ELSE 1 + BitLenSmall(n \div 2)

\* the number of binary digits of x
BBitLen(x) ==
    IF x = << >> THEN 0 ELSE LimbBits * (Len(x) - 1) + BitLenSmall(x[Len(x)])

BIsOdd(x) == x # << >> /\ x[1] % 2 = 1

BOne == <<1>>

RECURSIVE BDigitFrom(_, _, _)
BDigitFrom(cur, d, k) ==
    IF BCmp(BMulSmall(d, k), cur) <= 0 THEN k ELSE BDigitFrom(cur, d, k - 1)

\* cur \div d, for cur < d * Base and a d whose leading limb has all its
\* digits: the quotient of the leading limbs is at most two too large
BDigit(cur, d) ==
    IF BCmp(cur, d) < 0 THEN 0
    ELSE LET t == Len(d)
             estimate == (Limb(cur, t + 1) * Base + Limb(cur, t)) \div d[t]
         IN  BDigitFrom(cur, d, IF estimate < Base THEN estimate ELSE Base - 1)

RECURSIVE BDivFrom(_, _, _, _)
BDivFrom(n, d, i, r) ==
    IF i = 0 THEN [q |-> << >>, r |-> r]
    ELSE LET cur == BTrim(<<n[i]>> \o r)
             digit == BDigit(cur, d)
         IN  IF digit = 0
             THEN LET lower == BDivFrom(n, d, i - 1, cur)
                  IN  [q |-> lower.q \o <<0>>, r |-> lower.r]
             ELSE LET rest == BSub(cur, BMulSmall(d, digit))
                      lower == BDivFrom(n, d, i - 1, rest)
                  IN  [q |-> lower.q \o <<digit>>, r |-> lower.r]

\* quotient and remainder of n by d, for d > 0: long division, limb by limb,
\* from the leading limbs of n that make a number less than d
BDivMod(n, d) ==
    IF BCmp(n, d) < 0 THEN [q |-> << >>, r |-> n]
    ELSE LET shift == LimbBits - BitLenSmall(d[Len(d)])
             scaled == BShl(n, shift)
             divisor == BShl(d, shift)
             lead == Len(divisor) - 1
             res == BDivFrom(scaled, divisor, Len(scaled) - lead,
                             SubSeq(scaled, Len(scaled) - lead + 1,
                                    Len(scaled)))
         IN  [q |-> BTrim(res.q), r |-> BShr(res.r, shift)]

RECURSIVE BSqrtFrom(_, _)
BSqrtFrom(x, r) ==
    LET quotient == BDivMod(x, r).q
    IN  IF BCmp(quotient, r) >= 0 THEN r
        ELSE BSqrtFrom(x, BShr(BAdd(r, quotient), 1))

\* the greatest r with r * r <= x: Newton's iteration from above, until the
\* mean of r and x \div r is no longer below r
BSqrt(x) ==
    IF x = << >> THEN x ELSE BSqrtFrom(x, BShl(BOne, (BBitLen(x) + 1) \div 2))

(***************************************************************************)
(* IEEE 754 double precision numbers: sign * m * 2^e with m of 53 binary   *)
(* digits, or zero.  The operations round to nearest, ties to even, as the *)
(* operations of JavaScript numbers do.  The exponent is not bounded: the  *)
(* descriptors compared stay far away from overflow and underflow.         *)
(***************************************************************************)
Precision == 53

Zero64 == [sign |-> 1, m |-> << >>, e |-> 0]

\* the double nearest to sign * (m + s) * 2^e, where 0 <= s < 1 and sticky
\* tells whether s > 0; m has at least Precision + 2 digits when sticky
Round64(sign, m, sticky, e) ==
    IF m = << >> THEN Zero64
    ELSE LET len == BBitLen(m)
         IN  IF len <= Precision
             THEN [sign |-> sign, m |-> BShl(m, Precision - len),
                   e |-> e - (Precision - len)]
             ELSE LET k == len - Precision
                      q == BShr(m, k)
                      rest == BSub(m, BShl(q, k))
                      half == BCmp(rest, BShl(BOne, k - 1))
                      up == \/ half > 0
                            \/ half = 0 /\ (sticky \/ BIsOdd(q))
                      rounded == IF up THEN BAdd(q, BOne) ELSE q
                  IN  IF BBitLen(rounded) > Precision
                      THEN [sign |-> sign, m |-> BShr(rounded, 1), e |-> e + k + 1]
                      ELSE [sign |-> sign, m |-> rounded, e |-> e + k]

\* the double of the number n * 2^(-shift), for an integer n
FromInt64(n, shift) ==
    IF n >= 0 THEN Round64(1, BFromInt(n), FALSE, 0 - shift)
    ELSE Round64(-1, BFromInt(0 - n), FALSE, 0 - shift)

One64 == FromInt64(1, 0)

IsZero64(x) == x.m = << >>

Neg64(x) == IF IsZero64(x) THEN x ELSE [x EXCEPT !.sign = 0 - @]

Mul64(x, y) ==
    IF IsZero64(x) \/ IsZero64(y) THEN Zero64
    ELSE Round64(x.sign * y.sign, BMul(x.m, y.m), FALSE, x.e + y.e)

Add64(x, y) ==
    IF IsZero64(x) THEN y
    ELSE IF IsZero64(y) THEN x
    ELSE LET e == IF x.e <= y.e THEN x.e ELSE y.e
             mx == BShl(x.m, x.e - e)
             my == BShl(y.m, y.e - e)
             c == BCmp(mx, my)
         IN  IF x.sign = y.sign THEN Round64(x.sign, BAdd(mx, my), FALSE, e)
             ELSE IF c = 0 THEN Zero64
             ELSE IF c > 0 THEN Round64(x.sign, BSub(mx, my), FALSE, e)
             ELSE Round64(y.sign, BSub(my, mx), FALSE, e)

Sub64(x, y) == Add64(x, Neg64(y))

\* x / y, for y # 0
Div64(x, y) ==
    IF IsZero64(x) THEN Zero64
    ELSE LET d == BDivMod(BShl(x.m, Precision + 3), y.m)
         IN  Round64(x.sign * y.sign, d.q, d.r # << >>,
                     x.e - y.e - (Precision + 3))

\* Math.sqrt(x), for x >= 0
Sqrt64(x) ==
    IF IsZero64(x) THEN Zero64
    ELSE LET s == IF (x.e - (Precision + 3)) % 2 = 0
                  THEN Precision + 3 ELSE Precision + 4
             radicand == BShl(x.m, s)
             r == BSqrt(radicand)
         IN  Round64(1, r, BMul(r, r) # radicand, (x.e - s) \div 2)

\* -1, 0 or 1 as x is negative, zero or positive
Sign64(x) == IF IsZero64(x) THEN 0 ELSE x.sign

Less64(x, y) == Sign64(Sub64(x, y)) < 0

\* Math.max(x, y)
Max64(x, y) == IF Less64(x, y) THEN y ELSE x

\* x / 2
Half64(x) == IF IsZero64(x) THEN x ELSE [x EXCEPT !.e = @ - 1]

(***************************************************************************)
(* The comparators in double precision.  A descriptor is absent (null) or  *)
(* an array v of components, each a whole multiple of 2^(-DescriptorShift) *)
(***************************************************************************)
DescriptorShift == 2

\* the components of the descriptors compared
Components == -3..3

\* the greatest sum of squares of two descriptors' components or of their
\* differences, in units of 2^(-2 * DescriptorShift)
MaxSquareSum == 72

Number64(component) == FromInt64(component, DescriptorShift)

\* the square roots of the sums of squares that occur, computed once
SquareRoots ==
    {[of |-> x, root |-> Sqrt64(x)] :
        x \in {FromInt64(n, 2 * DescriptorShift) : n \in 0..MaxSquareSum}}

\* Math.sqrt
sqrt(x) == (CHOOSE entry \in SquareRoots : entry.of = x).root

\* the test without its null checks
Comparable_lengthOnly(a, b) == Len(a.v) = Len(b.v)

\* !(!a || !b || a.length !== b.length)
Comparable(a, b) == ~a.absent /\ ~b.absent /\ Len(a.v) = Len(b.v)

RECURSIVE SquaredDistance64(_, _, _)
SquaredDistance64(a, b, n) ==
    IF n = 0 THEN Zero64
    ELSE LET diff == Sub64(Number64(a[n]), Number64(b[n]))
         IN  Add64(SquaredDistance64(a, b, n - 1), Mul64(diff, diff))

\* Euclidean policy, as JavaScript computes it
faceSimilarity64(a, b) ==
    IF ~Comparable(a, b) THEN Zero64
    ELSE LET sum == SquaredDistance64(a.v, b.v, Len(a.v))
             distance == sqrt(sum)
         IN  Max64(Zero64, Sub64(One64, distance))

RECURSIVE CosineSums64(_, _, _)
CosineSums64(a, b, n) ==
    IF n = 0 THEN [dot |-> Zero64, normA |-> Zero64, normB |-> Zero64]
    ELSE LET sums == CosineSums64(a, b, n - 1)
             x == Number64(a[n])
             y == Number64(b[n])
         IN  [dot |-> Add64(sums.dot, Mul64(x, y)),
              normA |-> Add64(sums.normA, Mul64(x, x)),
              normB |-> Add64(sums.normB, Mul64(y, y))]

\* cosine policy, as JavaScript computes it
cosineSimilarity64(a, b) ==
    IF ~Comparable(a, b) THEN Zero64
    ELSE LET sums == CosineSums64(a.v, b.v, Len(a.v))
             denom == Mul64(sqrt(sums.normA), sqrt(sums.normB))
         IN  IF IsZero64(denom) THEN Zero64
             ELSE Half64(Add64(Div64(sums.dot, denom), One64))

Similarity64(a, b) ==
    IF policy = "distance" THEN faceSimilarity64(a, b) ELSE cosineSimilarity64(a, b)

(***************************************************************************)
(* Face verification loop (useFaceVerification)                            *)
(***************************************************************************)
\* videoRef.current.videoWidth of the 640x480 camera
VideoWidth == 640

FaceSetState(h, field, value) ==
    IF h.mounted THEN [h EXCEPT ![field] = value] ELSE h

\* verifiedCalls, speakCalls, suppressed, comparisons and comparedAt are
\* history: the calls of onVerified and of speakVerification, the detections
\* above the threshold that were not reported, the comparator calls and the
\* clock value read before the last one
FaceUnmounted ==
    [mounted |-> FALSE, initPc |-> "none",
     stream |-> "none", streamRef |-> FALSE,
     modelsLoaded |-> FALSE, referenceDescriptor |-> << >>,
     detectionInterval |-> FALSE, tickDue |-> FALSE,
     hasVerified |-> FALSE, lastDetectionTime |-> 0,
     inFlight |-> 0,
     isReady |-> FALSE, error |-> NoString, status |-> <<"Initializing...">>,
     faceDetected |-> FALSE, similarityScore |-> null,
     verifiedCalls |-> 0, speakCalls |-> 0, suppressed |-> 0,
     comparisons |-> 0, comparedAt |-> 0]

\* a mount whose throttle timestamp starts at 0 in both versions
FaceMount_fromZero ==
    [FaceUnmounted EXCEPT
        !.mounted = TRUE, !.initPc = "camera", !.lastDetectionTime = 0]

\* a freshly mounted FaceVerifier: the refs are created (lastDetectionTimeRef
\* is Date.now() in the distance-based hook and 0 in the cosine-based one) and
\* the init effect has called getUserMedia.  Detection calls of the previous
\* instance that have not returned are not followed further: their callbacks
\* find that instance unmounted and change nothing
FaceMount ==
    [FaceUnmounted EXCEPT
        !.mounted = TRUE, !.initPc = "camera",
        !.lastDetectionTime = IF policy = "distance" THEN now ELSE 0]

FaceCameraSettled(h, granted) ==
    IF ~granted
    THEN [FaceSetState(h, "error", <<"Camera access denied">>)
             EXCEPT !.initPc = "failed"]
    ELSE IF h.mounted
         THEN [h EXCEPT !.stream = "open", !.streamRef = TRUE,
                        !.initPc = "metadata"]
         ELSE [h EXCEPT !.stream = "open", !.initPc = "aborted"]

\* onloadedmetadata: initCamera returns true and init goes on to loadModels
FaceMetadataDone(h) ==
    [FaceSetState(h, "status", <<"Loading face recognition models...">>)
        EXCEPT !.initPc = "models"]

\* init after loadModels settles, up to the await in loadReferenceDescriptor
FaceModelsSettled(h, loaded) ==
    IF ~loaded
    THEN [FaceSetState(h, "error", <<"Failed to load face recognition models">>)
             EXCEPT !.initPc = "failed"]
    ELSE LET h1 == [h EXCEPT !.modelsLoaded = TRUE]
         IN  IF ~h1.mounted
             THEN [h1 EXCEPT !.initPc = "aborted"]
             ELSE [FaceSetState(h1, "status", <<"Loading reference face...">>)
                      EXCEPT !.initPc = "reference"]

\* init after loadReferenceDescriptor settles; descriptor is << >> when the
\* image failed to load or shows no face
FaceReferenceSettled(h, descriptor) ==
    IF descriptor = << >>
    THEN [FaceSetState(h, "error", <<"Failed to load reference face image">>)
             EXCEPT !.initPc = "failed"]
    ELSE LET h1 == [h EXCEPT !.referenceDescriptor = descriptor]
         IN  IF ~h1.mounted
             THEN [h1 EXCEPT !.initPc = "aborted"]
             ELSE [h1 EXCEPT !.isReady = TRUE,
                             !.status = <<"Ready - Look at camera">>,
                             !.initPc = "startDelay"]

\* startFaceDetection up to and including setInterval
startFaceDetection(h) ==
    IF ~h.mounted \/ h.referenceDescriptor = << >>
    THEN h
    ELSE [FaceSetState(h, "status", <<"Looking for face...">>)
             EXCEPT !.hasVerified = FALSE, !.detectionInterval = TRUE,
                    !.tickDue = FALSE]

\* the setTimeout(500) callback of init
FaceStartDelayDone(h) ==
    IF h.mounted
    THEN [startFaceDetection(h) EXCEPT !.initPc = "running"]
    ELSE [h EXCEPT !.initPc = "aborted"]

\* the interval callback up to its await; it runs when the interval elapsed
FaceTickBegin(h) ==
    LET fired == [h EXCEPT !.tickDue = FALSE]
    IN  IF ~fired.mounted \/ fired.hasVerified
        THEN fired
        ELSE [fired EXCEPT !.inFlight = @ + 1]

\* the quality test without its centring condition
checkFaceQuality_noCentering(h, detection) ==
    IF ~h.mounted THEN FALSE
    ELSE IF detection.score < 50 THEN FALSE
    ELSE IF \/ detection.box.width * 100 < 15 * VideoWidth
            \/ detection.box.width * 100 > 85 * VideoWidth
         THEN FALSE
    ELSE TRUE

checkFaceQuality(h, detection) ==
    IF ~h.mounted THEN FALSE
    ELSE IF detection.score < 50 THEN FALSE
    ELSE IF Abs(2 * detection.box.x + detection.box.width - VideoWidth) * 100
                > 2 * 35 * VideoWidth
         THEN FALSE
    ELSE IF \/ detection.box.width * 100 < 15 * VideoWidth
            \/ detection.box.width * 100 > 85 * VideoWidth
         THEN FALSE
    ELSE TRUE

stopDetection(h) == [h EXCEPT !.detectionInterval = FALSE, !.tickDue = FALSE]

\* the confirmation test without its threshold
Confirms_anyScore(h, similarity) == ~h.hasVerified

\* the confirmation test without its hasVerifiedRef guard
Confirms_noGuard(h, similarity) == similarity >= MATCH_THRESHOLD

\* similarity >= MATCH_THRESHOLD && !hasVerifiedRef.current
Confirms(h, similarity) == similarity >= MATCH_THRESHOLD /\ ~h.hasVerified

\* the throttle test that always lets the comparison through
shouldMatch_always(h, clock) == TRUE

\* now - lastDetectionTimeRef.current >= MATCHING_THROTTLE
shouldMatch(h, clock) == clock - h.lastDetectionTime >= MATCHING_THROTTLE

\* the single-face test that also accepts several faces
SingleFace_orMore(detections) == Len(detections) >= 1

\* detections.length === 1
SingleFace(detections) == Len(detections) = 1

\* the test before the comparison without the quality gate
ShouldCompare_noQuality(h, detection, clock) == shouldMatch(h, clock)

\* checkFaceQuality(detection) && shouldMatch
ShouldCompare(h, detection, clock) ==
    checkFaceQuality(h, detection) /\ shouldMatch(h, clock)

\* the interval callback giving up when detectAllFaces throws
FaceTickThrow_stops(h) == stopDetection([h EXCEPT !.inFlight = @ - 1])

\* the interval callback when detectAllFaces throws
FaceTickThrow(h) == [h EXCEPT !.inFlight = @ - 1]

\* the branch for no face that keeps the held score
NoFaceFound_keepsScore(h) ==
    FaceSetState(FaceSetState(h, "faceDetected", FALSE),
                 "status", <<"Please look at the camera">>)

\* detections.length === 0: setFaceDetected(false), setStatus,
\* setSimilarityScore(null)
NoFaceFound(h) ==
    FaceSetState(
        FaceSetState(
            FaceSetState(h, "faceDetected", FALSE),
            "status", <<"Please look at the camera">>),
        "similarityScore", null)

\* the interval callback after detectAllFaces returned detections, read at
\* clock value clock: the hook afterwards, and the argument of onVerified
\* (null when it is not called)
FaceTickEnd(h, detections, clock) ==
    LET back == [h EXCEPT !.inFlight = @ - 1]
    IN  IF Len(detections) = 0
        THEN [hook |-> NoFaceFound(back), verified |-> null]
        ELSE IF SingleFace(detections)
        THEN LET detection == detections[1]
                 seen == FaceSetState(back, "faceDetected", TRUE)
             IN  IF ShouldCompare(seen, detection, clock)
                 THEN LET similarity == Similarity(detection.descriptor,
                                                   seen.referenceDescriptor)
                          timed == [FaceSetState(seen, "status",
                                                 <<"Verifying face...">>)
                                       EXCEPT !.lastDetectionTime = clock,
                                              !.comparisons = @ + 1,
                                              !.comparedAt = clock]
                          scored == FaceSetState(timed, "similarityScore",
                                                 [value |-> similarity])
                      IN  IF Confirms(scored, similarity)
                          THEN [hook |-> [stopDetection(scored) EXCEPT
                                             !.hasVerified = TRUE,
                                             !.speakCalls = @ + 1,
                                             !.verifiedCalls = @ + 1],
                                verified |-> [similarity |-> similarity,
                                              confidence |-> detection.score]]
                          ELSE IF similarity < MATCH_THRESHOLD
                          THEN [hook |-> FaceSetState(scored, "status",
                                             <<"No match", similarity>>),
                                verified |-> null]
                          ELSE [hook |-> [scored EXCEPT !.suppressed = @ + 1],
                                verified |-> null]
                 ELSE [hook |-> FaceSetState(seen, "status",
                                             <<"Position face in center">>),
                       verified |-> null]
        ELSE [hook |-> FaceSetState(
                           FaceSetState(back, "faceDetected", FALSE),
                           "status",
                           <<"Multiple faces detected. Only one person allowed.">>),
              verified |-> null]

\* the cleanup of the init effect
FaceCleanup(h) ==
    LET stopped == stopDetection([h EXCEPT !.mounted = FALSE])
    IN  [stopped EXCEPT
            !.stream = IF h.streamRef /\ h.stream = "open" THEN "stopped" ELSE @]

\* what is left of the hook of a removed FaceVerifier
FaceDiscard(h) ==
    LET gone == [h EXCEPT !.isReady = FALSE, !.error = NoString,
                          !.status = <<"Initializing...">>,
                          !.faceDetected = FALSE, !.similarityScore = null]
    IN  IF /\ h.inFlight = 0
           /\ h.initPc \notin {"camera", "metadata", "models", "reference",
                                "startDelay"}
        THEN [gone EXCEPT !.lastDetectionTime = 0, !.comparedAt = 0,
                          !.comparisons = 0,
                          !.modelsLoaded = FALSE,
                          !.referenceDescriptor = << >>, !.streamRef = FALSE,
                          !.initPc = "none"]
        ELSE gone

(***************************************************************************)
(* Inputs from the camera, the OCR engine and the face detector            *)
(***************************************************************************)
\* "ID: 2201547 CARD"
TextNoisyKnown ==
    <<"I", "D", ":", " ", "2", "2", "0", "1", "5", "4", "7", " ", "C", "A", "R", "D">>
\* "12345"
TextShort == <<"1", "2", "3", "4", "5">>

\* what recognize may return: a registered identifier amid noise, too few
\* digits, the 8-digit key of the second registry, an unregistered identifier
OcrTexts == {TextNoisyKnown, TextShort, ID_20002547, ID_9999999}

\* the descriptor extracted from the reference photo
ReferenceDescriptor == <<30, 40>>

\* descriptors of live faces: one whose similarity is exactly the threshold
\* of the policy (distance 0.42, cosine 0) and one below it
LiveDescriptors ==
    IF policy = "distance"
    THEN {<<72, 40>>, <<60, 80>>}
    ELSE {<<40, -30>>, <<-30, -40>>}

CenteredBox == [x |-> 220, width |-> 200]
OffCenterBox == [x |-> 0, width |-> 100]

Face(box, descriptor) == [score |-> 90, box |-> box, descriptor |-> descriptor]

\* what detectAllFaces may return: no face, one face, two faces
DetectionResults ==
    {<< >>}
    \cup {<<Face(CenteredBox, d)>> : d \in LiveDescriptors}
    \cup {<<Face(OffCenterBox, ReferenceDescriptor)>>}
    \cup {<<Face(CenteredBox, ReferenceDescriptor),
            Face(OffCenterBox, ReferenceDescriptor)>>}

(***************************************************************************)
(* VerificationApp: the controller, and IDScanner or FaceVerifier mounted  *)
(* according to currentStep                                                *)
(***************************************************************************)
\* what VerificationApp renders for a controller state
ViewOf(step, data, result) ==
    IF step = SCANNING_ID THEN "IDScanner"
    ELSE IF step = VERIFYING_FACE /\ data # null THEN "FaceVerifier"
    ELSE IF step = SUCCESS /\ result # null THEN "SuccessScreen"
    ELSE IF step \in {FAILED_ID, FAILED_FACE, FAILED_MISMATCH} THEN "FailureScreen"
    ELSE "none"

\* the commit of a render for the controller state (step, data, result):
\* cleanups of the components that leave the tree run, then the effects of
\* the components that enter it
Render(step, data, result) ==
    /\ view' = ViewOf(step, data, result)
    /\ idHook' =
           IF view' = "IDScanner"
           THEN (IF idHook.mounted THEN idHook ELSE IdMount)
           ELSE (IF idHook.mounted THEN IdDiscard(IdCleanup(idHook)) ELSE idHook)
    /\ faceHook' =
           IF view' = "FaceVerifier"
           THEN (IF faceHook.mounted THEN faceHook ELSE FaceMount)
           ELSE (IF faceHook.mounted THEN FaceDiscard(FaceCleanup(faceHook))
                 ELSE faceHook)

Init ==
    /\ currentStep = SCANNING_ID
    /\ studentId = NoString
    /\ studentData = null
    /\ verificationResult = null
    /\ STUDENTS \in RegistryVersions
    /\ now = ClockStart
    /\ appMounted = TRUE
    /\ policy \in {"distance", "cosine"}
    /\ lastCall = [op |-> "none", arg |-> null, from |-> SCANNING_ID]
    /\ idHook = IdMount
    /\ faceHook = FaceUnmounted
    /\ view = "IDScanner"
    /\ evaluated = NotEvaluated
    /\ fsite = FsiteUnmounted

IdCameraResolve ==
    /\ idHook.initPc = "camera"
    /\ \E granted \in BOOLEAN : idHook' = IdCameraSettled(idHook, granted)
    /\ UNCHANGED <<ctrlVars, envVars, lastCall, faceHook, view>>

IdMetadataLoaded ==
    /\ idHook.initPc = "metadata"
    /\ idHook.mounted
    /\ idHook' = IdMetadataDone(idHook)
    /\ UNCHANGED <<ctrlVars, envVars, lastCall, faceHook, view>>

IdModelsResolve ==
    /\ idHook.initPc = "models"
    /\ \E outcome \in {"ok", "tf_failed", "worker_failed"}, ready \in BOOLEAN :
           idHook' = IdModelsSettled(idHook, outcome, ready)
    /\ UNCHANGED <<ctrlVars, envVars, lastCall, faceHook, view>>

\* the setInterval(scanFrame, SCAN_INTERVAL) callback
IdTick ==
    /\ idHook.timers > 0
    /\ idHook.inFlight < MaxInFlight
    /\ \E ready \in BOOLEAN : idHook' = scanFrameBegin(idHook, ready)
    /\ UNCHANGED <<ctrlVars, envVars, lastCall, faceHook, view>>

\* a detect or recognize call of scanFrame throws
IdScanThrow ==
    /\ idHook.inFlight > 0
    /\ idHook' = scanFrameThrow(idHook)
    /\ UNCHANGED <<ctrlVars, envVars, lastCall, faceHook, view>>

\* recognize returns: the rest of scanFrame, with onIDDetected
IdScanReturn ==
    /\ idHook.inFlight > 0
    /\ \E rawText \in OcrTexts :
           LET found == findValidStudentId(rawText)
           IN  /\ idHook' = scanFrameEnd(idHook, rawText)
               /\ IF found # NoString
                  THEN handleIDDetected(found)
                  ELSE UNCHANGED <<ctrlVars, lastCall>>
    /\ UNCHANGED <<envVars, faceHook, view>>

FaceCameraResolve ==
    /\ faceHook.initPc = "camera"
    /\ \E granted \in BOOLEAN : faceHook' = FaceCameraSettled(faceHook, granted)
    /\ UNCHANGED <<ctrlVars, envVars, lastCall, idHook, view>>

FaceMetadataLoaded ==
    /\ faceHook.initPc = "metadata"
    /\ faceHook.mounted
    /\ faceHook' = FaceMetadataDone(faceHook)
    /\ UNCHANGED <<ctrlVars, envVars, lastCall, idHook, view>>

FaceModelsResolve ==
    /\ faceHook.initPc = "models"
    /\ \E loaded \in BOOLEAN : faceHook' = FaceModelsSettled(faceHook, loaded)
    /\ UNCHANGED <<ctrlVars, envVars, lastCall, idHook, view>>

FaceReferenceResolve ==
    /\ faceHook.initPc = "reference"
    /\ \E descriptor \in {<< >>, ReferenceDescriptor} :
           faceHook' = FaceReferenceSettled(faceHook, descriptor)
    /\ UNCHANGED <<ctrlVars, envVars, lastCall, idHook, view>>

FaceStartTimeout ==
    /\ faceHook.initPc = "startDelay"
    /\ faceHook' = FaceStartDelayDone(faceHook)
    /\ UNCHANGED <<ctrlVars, envVars, lastCall, idHook, view>>

\* the setInterval(..., DETECTION_INTERVAL) callback
FaceTick ==
    /\ faceHook.detectionInterval
    /\ faceHook.tickDue
    /\ faceHook.inFlight < MaxInFlight
    /\ faceHook' = FaceTickBegin(faceHook)
    /\ UNCHANGED <<ctrlVars, envVars, lastCall, idHook, view>>

\* detectAllFaces of a tick of the current instance throws
FaceDetectThrow ==
    /\ faceHook.inFlight > 0
    /\ faceHook' = FaceTickThrow(faceHook)
    /\ UNCHANGED <<ctrlVars, envVars, lastCall, idHook, view>>

\* detectAllFaces of a tick of the current instance returns: the rest of the
\* callback, with onVerified
FaceDetectReturn ==
    /\ faceHook.inFlight > 0
    /\ \E detections \in DetectionResults :
           LET end == FaceTickEnd(faceHook, detections, now)
           IN  /\ faceHook' = end.hook
               /\ IF end.verified # null
                  THEN handleFaceVerified(end.verified)
                  ELSE UNCHANGED <<ctrlVars, lastCall>>
    /\ UNCHANGED <<envVars, idHook, view>>

\* React renders the controller state set by a loop's callback; callbacks of
\* timers and of settled calls may run before it does
Commit ==
    /\ appMounted
    /\ view # ViewOf(currentStep, studentData, verificationResult)
    /\ Render(currentStep, studentData, verificationResult)
    /\ UNCHANGED <<ctrlVars, envVars, lastCall>>

\* SuccessScreen's onReset or FailureScreen's onRetry, called from a click:
\* React renders before the event handler returns
ClickReset ==
    /\ appMounted
    /\ view \in {"SuccessScreen", "FailureScreen"}
    /\ reset
    /\ Render(currentStep', studentData', verificationResult')
    /\ UNCHANGED envVars

\* VerificationApp leaves the page: the cleanup of the mounted loop runs
AppUnmount ==
    /\ appMounted
    /\ appMounted' = FALSE
    /\ idHook' = IF idHook.mounted THEN IdDiscard(IdCleanup(idHook)) ELSE idHook
    /\ faceHook' = IF faceHook.mounted THEN FaceDiscard(FaceCleanup(faceHook))
                   ELSE faceHook
    /\ view' = "none"
    /\ UNCHANGED <<ctrlVars, STUDENTS, now, policy, lastCall, fsite, evaluated>>

\* time passes; an active detection interval becomes due
ClockAdvance ==
    /\ now + ClockStep <= ClockStart + MaxClockSteps * ClockStep
    /\ now' = now + ClockStep
    /\ faceHook' = [faceHook EXCEPT !.tickDue = faceHook.detectionInterval]
    /\ UNCHANGED <<ctrlVars, STUDENTS, appMounted, policy, lastCall, fsite, idHook, view,
                   evaluated>>

Next ==
    \/ IdCameraResolve
    \/ IdMetadataLoaded
    \/ IdModelsResolve
    \/ IdTick
    \/ IdScanThrow
    \/ IdScanReturn
    \/ FaceCameraResolve
    \/ FaceMetadataLoaded
    \/ FaceModelsResolve
    \/ FaceReferenceResolve
    \/ FaceStartTimeout
    \/ FaceTick
    \/ FaceDetectThrow
    \/ FaceDetectReturn
    \/ Commit
    \/ ClickReset
    \/ AppUnmount
    \/ ClockAdvance

Spec == Init /\ [][Next]_vars

\* Spec with the scheduling that the browser guarantees to the ID loop: an
\* active interval timer keeps firing, and every detect/recognize call
\* settles (it returns or it throws)
SpecLive ==
    /\ Init
    /\ [][Next]_vars
    /\ WF_vars(IdTick)
    /\ WF_vars(IdScanThrow \/ IdScanReturn)

(***************************************************************************)
(* The controller driven directly through its four handlers                *)
(***************************************************************************)
\* identifiers a caller may pass: registered ones and an unknown one
CallerIds == {ID_2201521, ID_2201547, ID_20002547, ID_9999999}

\* {similarity, confidence} results a caller may pass (hundredths)
CallerResults == {[similarity |-> 62, confidence |-> 90],
                  [similarity |-> 58, confidence |-> 50]}

CallerReasons == {"timeout"}

InitFlow ==
    /\ currentStep = SCANNING_ID
    /\ studentId = NoString
    /\ studentData = null
    /\ verificationResult = null
    /\ STUDENTS \in RegistryVersions
    /\ now = ClockStart
    /\ appMounted = TRUE
    /\ policy \in {"distance", "cosine"}
    /\ lastCall = [op |-> "none", arg |-> null, from |-> SCANNING_ID]
    /\ idHook = IdUnmounted
    /\ faceHook = FaceUnmounted
    /\ view = "none"
    /\ evaluated = NotEvaluated
    /\ fsite = FsiteUnmounted

CallIDDetected ==
    \E id \in CallerIds :
        /\ handleIDDetected(id)
        /\ UNCHANGED <<envVars, hookVars, view>>

CallFaceVerified ==
    \E result \in CallerResults :
        /\ handleFaceVerified(result)
        /\ UNCHANGED <<envVars, hookVars, view>>

CallFaceFailed ==
    \E reason \in CallerReasons :
        /\ handleFaceFailed(reason)
        /\ UNCHANGED <<envVars, hookVars, view>>

CallReset ==
    /\ reset
    /\ UNCHANGED <<envVars, hookVars, view>>

NextFlow ==
    \/ CallIDDetected
    \/ CallFaceVerified
    \/ CallFaceFailed
    \/ CallReset
    \/ ClockAdvance

SpecFlow == InitFlow /\ [][NextFlow]_vars

(***************************************************************************)
(* findValidStudentId called on its own                                    *)
(***************************************************************************)
\* what may stand before and after the digits of interest: nothing, letters
\* and punctuation, digits
NoiseBefore ==
    {<< >>, <<"I", "D", ":", " ">>, <<"9">>, <<"2", "2">>, <<"x", "0", "-">>}
NoiseAfter ==
    {<< >>, <<" ", "C", "A", "R", "D">>, <<"1">>, <<"5", "4", "7">>}

\* the digits of interest: registry keys whole, broken by noise, cut short,
\* off by one digit, two of them in both orders, an unregistered identifier
\* before a registered one, no digit at all
TextCores ==
    {ID_2201521, ID_2201547, ID_20002547, ID_9999999,
     <<"2", "2", "0", "1", "-", "5", " ", "4", "7">>,
     <<"2", "2", "0", "1", "5", "4">>,
     <<"2", "2", "0", "1", "5", "4", "8">>,
     ID_2201547 \o ID_2201521,
     ID_2201521 \o <<" ">> \o ID_2201547,
     ID_20002547 \o ID_2201547,
     ID_2201547 \o <<"/">> \o ID_20002547,
     ID_9999999 \o <<" ">> \o ID_2201521,
     TextShort,
     << >>}

ReconcileTexts ==
    {before \o core \o after :
        before \in NoiseBefore, core \in TextCores, after \in NoiseAfter}

ApplyFindValidStudentId ==
    /\ \E text \in ReconcileTexts :
           evaluated' = [fn |-> "findValidStudentId", text |-> text,
                         result |-> findValidStudentId(text)]
    /\ UNCHANGED <<ctrlVars, STUDENTS, now, appMounted, policy, lastCall, fsite,
                   hookVars, view>>

NextReconcile == ApplyFindValidStudentId

SpecReconcile == InitFlow /\ [][NextReconcile]_vars

(***************************************************************************)
(* checkFaceQuality called on its own                                      *)
(***************************************************************************)
\* detection scores in hundredths, around the 0.5 limit
QualityScores == {0, 49, 50, 51, 90, 100}

\* box widths in pixels, around 15% and 85% of the video width
QualityWidths == {95, 96, 97, 200, 543, 544, 545}

\* left edges in pixels, around the places where boxes of these widths are
\* 35% of the video width away from the centre
QualityLefts == {-5, -4, -3, 0, 47, 48, 220, 443, 444, 445, 495, 496}

ApplyCheckFaceQuality ==
    /\ \E present \in BOOLEAN, score \in QualityScores,
          x \in QualityLefts, width \in QualityWidths :
           LET h == [faceHook EXCEPT !.mounted = present]
               detection == [score |-> score,
                             box |-> [x |-> x, width |-> width]]
           IN  evaluated' = [fn |-> "checkFaceQuality", present |-> present,
                             detection |-> detection,
                             result |-> checkFaceQuality(h, detection)]
    /\ UNCHANGED <<ctrlVars, STUDENTS, now, appMounted, policy, lastCall, fsite,
                   hookVars, view>>

NextQuality == ApplyCheckFaceQuality

SpecQuality == InitFlow /\ [][NextQuality]_vars

(***************************************************************************)
(* The comparator called on its own                                        *)
(***************************************************************************)
NoDescriptor == [absent |-> TRUE, v |-> << >>]

\* null, the empty array, the arrays of two components and one of three
Descriptors ==
    {NoDescriptor, [absent |-> FALSE, v |-> << >>],
     [absent |-> FALSE, v |-> <<1, 1, 1>>]}
    \cup {[absent |-> FALSE, v |-> <<x, y>>] : x \in Components, y \in Components}

InitCompare ==
    /\ currentStep = SCANNING_ID
    /\ studentId = NoString
    /\ studentData = null
    /\ verificationResult = null
    /\ STUDENTS = STUDENTS_documented
    /\ now = ClockStart
    /\ appMounted = TRUE
    /\ policy \in {"distance", "cosine"}
    /\ lastCall = [op |-> "none", arg |-> null, from |-> SCANNING_ID]
    /\ idHook = IdUnmounted
    /\ faceHook = FaceUnmounted
    /\ view = "none"
    /\ evaluated \in [fn : {"pending"}, a : Descriptors, b : Descriptors]
    /\ fsite = FsiteUnmounted

\* the call of the comparator of the policy on the two descriptors; the
\* comparator assigns to neither of them
ApplyComparator ==
    /\ evaluated.fn = "pending"
    /\ evaluated' = [fn |-> "comparator", a |-> evaluated.a, b |-> evaluated.b,
                     result |-> Similarity64(evaluated.a, evaluated.b)]
    /\ UNCHANGED <<ctrlVars, STUDENTS, now, appMounted, policy, lastCall, fsite,
                   hookVars, view>>

NextCompare == ApplyComparator

SpecCompare == InitCompare /\ [][NextCompare]_vars

(***************************************************************************)
(* useIDScannerLogic with its returned startScanning and stopScanning      *)
(* called by the component at any time                                     *)
(***************************************************************************)
\* the calls the component has made so far
ScannerCalls == IF evaluated.fn = "none" THEN 0 ELSE evaluated.calls

CallStartScanning ==
    /\ idHook.mounted
    /\ ScannerCalls < MaxCalls
    /\ idHook.inFlight < MaxInFlight
    /\ \E ready \in BOOLEAN : idHook' = startScanning(idHook, ready)
    /\ evaluated' = [fn |-> "startScanning", calls |-> ScannerCalls + 1]
    /\ UNCHANGED <<ctrlVars, STUDENTS, now, appMounted, policy, fsite, lastCall,
                   faceHook, view>>

CallStopScanning ==
    /\ idHook.mounted
    /\ ScannerCalls < MaxCalls
    /\ idHook' = stopScanning(idHook)
    /\ evaluated' = [fn |-> "stopScanning", calls |-> ScannerCalls + 1]
    /\ UNCHANGED <<ctrlVars, STUDENTS, now, appMounted, policy, fsite, lastCall,
                   faceHook, view>>

\* recognize returns, as long as the counters are within the bounds
ScannerScanReturn ==
    /\ idHook.reported < MaxReports
    /\ idHook.scanCount < MaxScans
    /\ IdScanReturn

NextScanner ==
    \/ IdCameraResolve
    \/ IdMetadataLoaded
    \/ IdModelsResolve
    \/ IdTick
    \/ IdScanThrow
    \/ ScannerScanReturn
    \/ CallStartScanning
    \/ CallStopScanning

\* IDScanner has just been mounted
InitScanner ==
    /\ Init
    /\ policy = "distance"

SpecScanner == InitScanner /\ [][NextScanner]_vars

(***************************************************************************)
(* The face-only front-end                                                 *)
(***************************************************************************)
InitFsite ==
    /\ currentStep = SCANNING_ID
    /\ studentId = NoString
    /\ studentData = null
    /\ verificationResult = null
    /\ STUDENTS = STUDENTS_documented
    /\ now = ClockStart
    /\ appMounted = FALSE
    /\ policy = "cosine"
    /\ lastCall = [op |-> "none", arg |-> null, from |-> SCANNING_ID]
    /\ idHook = IdUnmounted
    /\ faceHook = FaceUnmounted
    /\ view = "none"
    /\ evaluated = NotEvaluated
    /\ fsite = FsiteMount

FsiteInitDone ==
    /\ fsite.initPc = "init"
    /\ \E started \in BOOLEAN : fsite' = FsiteInitSettled(fsite, started, now)
    /\ UNCHANGED <<ctrlVars, STUDENTS, now, appMounted, policy, evaluated,
                   lastCall, hookVars, view>>

\* the interval timer fires
FsiteTick ==
    /\ fsite.detectionInterval
    /\ now >= fsite.nextTick
    /\ fsite.inFlight < MaxInFlight
    /\ fsite' = FsiteTickBegin(fsite, now)
    /\ UNCHANGED <<ctrlVars, STUDENTS, now, appMounted, policy, evaluated,
                   lastCall, hookVars, view>>

\* detectAllFaces settles
FsiteDetectSettle ==
    /\ fsite.inFlight > 0
    /\ \E outcome \in FsiteOutcomes : fsite' = FsiteTickEnd(fsite, outcome)
    /\ UNCHANGED <<ctrlVars, STUDENTS, now, appMounted, policy, evaluated,
                   lastCall, hookVars, view>>

FsiteUnmount ==
    /\ fsite.mounted
    /\ fsite' = FsiteCleanup(fsite)
    /\ UNCHANGED <<ctrlVars, STUDENTS, now, appMounted, policy, evaluated,
                   lastCall, hookVars, view>>

NextFsite ==
    \/ FsiteInitDone
    \/ FsiteTick
    \/ FsiteDetectSettle
    \/ FsiteUnmount
    \/ ClockAdvance

SpecFsite == InitFsite /\ [][NextFsite]_vars

(***************************************************************************)
(* addStudent called on its own                                            *)
(***************************************************************************)
\* records an administrator may pass: complete ones for a new and for a
\* registered identifier, and ones whose id, name or faceImage is absent or
\* the empty string
AdminRecords ==
    {[id |-> ID_9999999, name |-> "New Student", faceImage |-> "/uploads/new.jpg"],
     [id |-> ID_2201547, name |-> "Jane Doe", faceImage |-> "/uploads/jane.jpg",
      year |-> "Graduate"],
     [id |-> ID_2201521, name |-> "John Paul", faceImage |-> "/uploads/me.jpg"],
     [id |-> ID_20002547, name |-> "J. Paul", faceImage |-> "/uploads/mememe.jpg"],
     [name |-> "No Id", faceImage |-> "/uploads/x.jpg"],
     [id |-> ID_9999999, faceImage |-> "/uploads/x.jpg"],
     [id |-> ID_2201547, name |-> "No Image"],
     [id |-> << >>, name |-> "Empty Id", faceImage |-> "/uploads/x.jpg"],
     [id |-> ID_2201547, name |-> "", faceImage |-> "/uploads/x.jpg"],
     [id |-> ID_2201521, name |-> "Empty Image", faceImage |-> ""]}

\* addStudent without its test of the required fields
addStudent_unchecked(registry, record) ==
    IF "id" \in DOMAIN record
    THEN [threw |-> NoString,
          STUDENTS |-> [k \in DOMAIN registry \cup {record.id} |->
                           IF k = record.id THEN record ELSE registry[k]]]
    ELSE [threw |-> NoString, STUDENTS |-> registry]

\* !studentData.id || !studentData.name || !studentData.faceImage: throw;
\* otherwise STUDENTS[studentData.id] = studentData (record is the argument)
addStudent(registry, record) ==
    IF \/ "id" \notin DOMAIN record
       \/ record.id = << >>
       \/ "name" \notin DOMAIN record
       \/ record.name = ""
       \/ "faceImage" \notin DOMAIN record
       \/ record.faceImage = ""
    THEN [threw |-> <<"Missing required student data">>, STUDENTS |-> registry]
    ELSE [threw |-> NoString,
          STUDENTS |-> [k \in DOMAIN registry \cup {record.id} |->
                           IF k = record.id THEN record ELSE registry[k]]]

ApplyAddStudent ==
    \E record \in AdminRecords :
        LET call == addStudent(STUDENTS, record)
        IN  /\ STUDENTS' = call.STUDENTS
            /\ evaluated' = [fn |-> "addStudent", studentData |-> record,
                             before |-> STUDENTS, threw |-> call.threw]
            /\ UNCHANGED <<ctrlVars, now, appMounted, policy, lastCall, fsite,
                           hookVars, view>>

NextRegistry == ApplyAddStudent

SpecRegistry == InitFlow /\ [][NextRegistry]_vars



(***************************************************************************)
(* Properties                                                              *)
(***************************************************************************)
\* a string of exactly seven digits
IsSevenDigits(text) ==
    Len(text) = 7 /\ \A i \in 1..Len(text) : text[i] \in Digits

\* C1: in every interleaving of interval ticks and detection completions a
\* started face loop calls onVerified, and speaks, at most once, and the
\* controller's verificationResult is written only from verifying_face, where
\* it is still null: at most once between two resets.
C1_VerifiedAtMostOnce ==
    /\ faceHook.verifiedCalls <= 1
    /\ faceHook.speakCalls <= 1
    /\ lastCall.op = "handleFaceVerified" => lastCall.from = VERIFYING_FACE
    /\ currentStep = VERIFYING_FACE => verificationResult = null

\* a later detection of the same loop scored above the threshold after the
\* loop had verified, and was not reported
C1_Witness ==
    /\ faceHook.verifiedCalls = 1
    /\ faceHook.suppressed > 0
    /\ currentStep = SUCCESS

\* C2: handleIDDetected(id) called in scanning_id with a registered id leaves
\* the controller in verifying_face with studentId = id, studentData = the
\* registry record of id, and verificationResult still null.
C2_KnownIdStartsFaceStep ==
    (/\ lastCall.op = "handleIDDetected"
     /\ lastCall.from = SCANNING_ID
     /\ lastCall.arg \in DOMAIN STUDENTS)
    => /\ currentStep = VERIFYING_FACE
       /\ studentId = lastCall.arg
       /\ studentData = STUDENTS[lastCall.arg]
       /\ verificationResult = null

C2_Witness ==
    /\ lastCall.op = "handleIDDetected"
    /\ lastCall.from = SCANNING_ID
    /\ lastCall.arg \in DOMAIN STUDENTS
    /\ currentStep = VERIFYING_FACE

\* C3: after any sequence of handler calls, studentData is non-null only if
\* studentId is non-null, and then studentData is the registry record of
\* studentId.
C3_DataBelongsToId ==
    studentData # null
    => /\ studentId # NoString
       /\ studentData = getStudentByID(studentId)

\* C4: once currentStep is success, failed_id, failed_face or failed_mismatch
\* it changes only through reset().
C4_TerminalLeftOnlyByReset ==
    [][(currentStep \in TerminalStates /\ currentStep' # currentStep)
         => lastCall'.op = "reset"]_vars

\* C5: reset(), called in any controller state, leaves currentStep =
\* scanning_id and studentId, studentData and verificationResult null.
C5_ResetClearsSession ==
    lastCall.op = "reset"
    => /\ currentStep = SCANNING_ID
       /\ studentId = NoString
       /\ studentData = null
       /\ verificationResult = null

\* reset() has been called on a session that held a verification result
C5_Witness ==
    /\ lastCall.op = "reset"
    /\ lastCall.from = SUCCESS
    /\ currentStep = SCANNING_ID

C7_OneDetectionAtATime == faceHook.inFlight <= 1

\* C8: after startScanning, in every interleaving of ticks and completions,
\* at most one detect/recognize call of scanFrame is outstanding.
C8_OneScanAtATime == idHook.inFlight <= 1

\* the interval timer is running while a call is outstanding, so that a tick
\* can arrive before the call returns
C8_Witness ==
    /\ idHook.scanInterval
    /\ idHook.inFlight = 1
    /\ idHook.isProcessing
    /\ idHook.scanCount > 0

\* C9: in VerificationApp the ID-scan timer and the face-detection timer are
\* never both active, and at most one of the two loops holds an open camera
\* stream.
C9_OneLoopAtATime ==
    /\ ~(idHook.scanInterval /\ faceHook.detectionInterval)
    /\ ~(idHook.stream = "open" /\ faceHook.stream = "open")

\* the face loop runs on its own stream after the ID loop released its own
C9_Witness ==
    /\ idHook.stream = "stopped"
    /\ faceHook.stream = "open"
    /\ faceHook.detectionInterval

\* C10: once the cleanup of a loop has run, the loop has no active interval
\* timer and every camera stream it acquired has been stopped.
C10_CleanupReleasesAll ==
    /\ ~idHook.mounted => (~idHook.scanInterval /\ idHook.stream # "open")
    /\ ~faceHook.mounted => (~faceHook.detectionInterval /\ faceHook.stream # "open")

\* C11: when the reconciliation of a tick yields an identifier, the ID loop
\* clears its interval timer and calls onIDDetected with that identifier, once
\* for the started loop; afterwards no call of scanFrame is outstanding or
\* begun, and the controller holds the identifier that was reported.
C11_ReportedOnce ==
    /\ idHook.reported <= 1
    /\ idHook.reported = 1
       => /\ ~idHook.scanInterval
          /\ idHook.inFlight = 0
          /\ ~idHook.isProcessing
    /\ (idHook.reported = 1 /\ idHook.mounted)
       => /\ idHook.status = <<"ID detected!">>
          /\ lastCall.op = "handleIDDetected"
          /\ lastCall.arg = findValidStudentId(idHook.lastText)
          /\ studentId = lastCall.arg

\* the loop has reported an identifier read amid noise and the IDScanner is
\* still mounted: a timer that was left running could fire
C11_Witness ==
    /\ idHook.mounted
    /\ idHook.reported = 1
    /\ idHook.lastText = TextNoisyKnown
    /\ studentId = ID_2201547
    /\ idHook.scanCount > 0

\* C12: the attempt counter never exceeds MAX_ATTEMPTS; when MAX_ATTEMPTS
\* ticks of a mounted loop completed OCR without an identifier, the timer is
\* cleared, no call is outstanding, the error is 'Could not detect student
\* ID. Please try again.' and the status is 'Scan timeout'.
C12_TimeoutAfterMaxAttempts ==
    /\ idHook.scanCount <= MAX_ATTEMPTS
    /\ (idHook.mounted /\ idHook.scanCount = MAX_ATTEMPTS)
       => /\ ~idHook.scanInterval
          /\ idHook.inFlight = 0
          /\ idHook.error = <<"Could not detect student ID. Please try again.">>
          /\ idHook.status = <<"Scan timeout">>

\* the loop has used its whole budget
C12_Witness ==
    /\ idHook.mounted
    /\ idHook.scanCount = MAX_ATTEMPTS
    /\ idHook.status = <<"Scan timeout">>
    /\ idHook.reported = 0

\* C13: when the ID loop has exhausted its attempt budget, the controller has
\* left scanning_id for a failed state.
C13_TimeoutReachesController ==
    (/\ idHook.mounted
     /\ idHook.scanCount = MAX_ATTEMPTS
     /\ view = ViewOf(currentStep, studentData, verificationResult))
    => currentStep \in {FAILED_ID, FAILED_FACE, FAILED_MISMATCH}

\* C14: every started ID loop eventually stops (its interval timer is
\* cleared), when the timer keeps firing and every detect/recognize call
\* returns or throws.
C14_IdLoopStops == idHook.scanInterval ~> ~idHook.scanInterval

\* the step is the rest of an interval callback of the face loop, after
\* detectAllFaces returned detections
TickReturned(detections) ==
    /\ faceHook.inFlight > 0
    /\ faceHook' = FaceTickEnd(faceHook, detections, now).hook

\* exactly one detection, which passes the quality gate, with the throttle
\* elapsed at the clock value read after the detection returned
OneGoodFaceInTime(detections) ==
    /\ Len(detections) = 1
    /\ checkFaceQuality(faceHook, detections[1])
    /\ now - faceHook.lastDetectionTime >= MATCHING_THROTTLE

\* the comparison score of the single detection
ScoreOf(detections) ==
    Similarity(detections[1].descriptor, faceHook.referenceDescriptor)

\* the loop marks itself verified, clears its timer and calls onVerified with
\* the score and the detector confidence; the controller is in success and
\* its verificationResult holds them, a timestamp and the session's studentId
VerifiedWith(detections) ==
    /\ faceHook'.hasVerified
    /\ ~faceHook'.detectionInterval
    /\ faceHook'.verifiedCalls = faceHook.verifiedCalls + 1
    /\ lastCall'.op = "handleFaceVerified"
    /\ lastCall'.arg = [similarity |-> ScoreOf(detections),
                        confidence |-> detections[1].score]
    /\ currentStep' = SUCCESS
    /\ verificationResult' # null
    /\ DOMAIN verificationResult' =
           {"similarity", "confidence", "timestamp", "studentId"}
    /\ verificationResult'.similarity = ScoreOf(detections)
    /\ verificationResult'.confidence = detections[1].score
    /\ verificationResult'.timestamp = now
    /\ verificationResult'.studentId = studentId
    /\ studentId' = studentId

C16_VerifiedOnlyOnGoodFace ==
    [][/\ (faceHook'.verifiedCalls > faceHook.verifiedCalls)
          => \E detections \in DetectionResults : TickReturned(detections)
       /\ (lastCall' # lastCall /\ lastCall'.op = "handleFaceVerified")
          => faceHook'.verifiedCalls = faceHook.verifiedCalls + 1
       /\ \A detections \in DetectionResults :
             (/\ TickReturned(detections)
              /\ faceHook'.verifiedCalls > faceHook.verifiedCalls)
             => /\ Len(detections) = 1
                /\ checkFaceQuality(faceHook, detections[1])
                /\ ScoreOf(detections) >= MATCH_THRESHOLD]_vars

\* onVerified has been called; the loop shows the face and its score
C16_Witness ==
    /\ faceHook.verifiedCalls = 1
    /\ faceHook.faceDetected
    /\ faceHook.similarityScore # null
    /\ faceHook.status = <<"Verifying face...">>
    /\ lastCall.op = "handleFaceVerified"

\* C17: the rest of a tick with two or more detections sets the
\* multiple-faces status (on a mounted FaceVerifier), calls no comparator,
\* leaves the throttle timestamp as it was, does not clear the timer and
\* calls no controller handler; for a loop that has not verified, the timer
\* is active and the controller is in verifying_face afterwards.
C17_MultipleFacesRejected ==
    [][\A detections \in DetectionResults :
          (TickReturned(detections) /\ Len(detections) >= 2)
          => /\ faceHook.mounted
                => faceHook'.status =
                       <<"Multiple faces detected. Only one person allowed.">>
             /\ faceHook'.comparisons = faceHook.comparisons
             /\ faceHook'.similarityScore = faceHook.similarityScore
             /\ faceHook'.lastDetectionTime = faceHook.lastDetectionTime
             /\ faceHook'.detectionInterval = faceHook.detectionInterval
             /\ faceHook'.verifiedCalls = faceHook.verifiedCalls
             /\ UNCHANGED <<ctrlVars, lastCall>>
             /\ (faceHook.mounted /\ ~faceHook.hasVerified)
                => /\ faceHook'.detectionInterval
                   /\ currentStep' = VERIFYING_FACE]_vars

\* two faces were rejected at a clock value at which a comparison was due
C17_Witness ==
    /\ faceHook.mounted
    /\ faceHook.status = <<"Multiple faces detected. Only one person allowed.">>
    /\ now - faceHook.lastDetectionTime >= MATCHING_THROTTLE
    /\ faceHook.detectionInterval
    /\ faceHook.inFlight = 0
    /\ currentStep = VERIFYING_FACE

\* C18: the rest of a tick whose comparison scores below MATCH_THRESHOLD sets
\* the status 'No match (score%)', does not clear the timer and calls
\* neither onVerified nor any controller handler; for a loop that has not
\* verified, the timer is active and the controller is in verifying_face
\* afterwards.
C18_NoMatchKeepsLooping ==
    [][\A detections \in DetectionResults :
          (/\ TickReturned(detections)
           /\ OneGoodFaceInTime(detections)
           /\ ScoreOf(detections) < MATCH_THRESHOLD)
          => /\ faceHook'.status = <<"No match", ScoreOf(detections)>>
             /\ faceHook'.similarityScore = [value |-> ScoreOf(detections)]
             /\ faceHook'.detectionInterval = faceHook.detectionInterval
             /\ faceHook'.verifiedCalls = faceHook.verifiedCalls
             /\ faceHook'.hasVerified = faceHook.hasVerified
             /\ UNCHANGED <<ctrlVars, lastCall>>
             /\ ~faceHook.hasVerified
                => /\ faceHook'.detectionInterval
                   /\ currentStep' = VERIFYING_FACE]_vars

\* a comparison has scored below the threshold and the loop goes on
C18_Witness ==
    /\ faceHook.mounted
    /\ faceHook.status[1] = "No match"
    /\ faceHook.similarityScore # null
    /\ faceHook.similarityScore.value < MATCH_THRESHOLD
    /\ faceHook.detectionInterval
    /\ faceHook.verifiedCalls = 0
    /\ currentStep = VERIFYING_FACE

\* C19: a comparator call of a face loop that is not its first is made at a
\* clock value (read after the detection returned) at least
\* MATCHING_THROTTLE after the clock value of the call before it, whatever
\* the interleaving of ticks and returns.
C19_ComparisonsThrottled ==
    [][(/\ faceHook'.comparisons = faceHook.comparisons + 1
        /\ faceHook.comparisons >= 1)
       => /\ faceHook'.comparedAt = now
          /\ now - faceHook.comparedAt >= MATCHING_THROTTLE]_vars

\* a loop of the distance-based hook has compared twice
C19_Witness ==
    /\ policy = "distance"
    /\ faceHook.comparisons >= 2
    /\ faceHook.comparedAt - faceHook.lastDetectionTime = 0

ScanThrew == idHook.inFlight > 0 /\ idHook' = scanFrameThrow(idHook)

\* the step is the catch of an interval callback of the face loop whose
\* detectAllFaces call threw
DetectionThrew == faceHook.inFlight > 0 /\ faceHook' = FaceTickThrow(faceHook)

\* C21: when the detection or recognition call of a tick throws, the loop
\* goes on: the timer is not cleared (it is active for a mounted loop that
\* has not stopped), the attempt is not counted, the in-progress flag of the
\* ID loop is cleared so that the next tick of a mounted loop begins a call,
\* and the controller is unchanged.
C21_ThrowKeepsLooping ==
    [][/\ ScanThrew
          => /\ idHook'.scanInterval = idHook.scanInterval
             /\ idHook'.scanCount = idHook.scanCount
             /\ ~idHook'.isProcessing
             /\ UNCHANGED <<ctrlVars, lastCall>>
             /\ idHook.mounted
                => /\ idHook'.scanInterval
                   /\ ~ScanFrameSkips(idHook')
                   /\ scanFrameBegin(idHook', TRUE).inFlight
                          = idHook'.inFlight + 1
       /\ DetectionThrew
          => /\ faceHook'.detectionInterval = faceHook.detectionInterval
             /\ faceHook'.hasVerified = faceHook.hasVerified
             /\ UNCHANGED <<ctrlVars, lastCall>>
             /\ (faceHook.mounted /\ ~faceHook.hasVerified)
                => /\ faceHook'.detectionInterval
                   /\ currentStep' = VERIFYING_FACE]_vars

\* a scanFrame of the running ID loop has thrown: its status is still the
\* one set before the call, and no attempt was counted
C21_Witness ==
    /\ idHook.mounted
    /\ idHook.scanInterval
    /\ idHook.inFlight = 0
    /\ ~idHook.isProcessing
    /\ idHook.status = <<"Scanning for ID card...">>
    /\ idHook.scanCount = 0
    /\ currentStep = SCANNING_ID

C30_UnknownIdLeavesNoData ==
    (lastCall.op = "handleIDDetected" /\ getStudentByID(lastCall.arg) = null)
    => /\ currentStep = FAILED_ID
       /\ studentId = lastCall.arg
       /\ studentData = null
       /\ verificationResult = null

\* C25: every identifier that the ID loop passes to onIDDetected is a string
\* of exactly 7 digits.
C25_ReportedIdsHaveSevenDigits ==
    (idHook.reported > 0 /\ lastCall.op = "handleIDDetected")
    => IsSevenDigits(lastCall.arg)

\* the digits of a text, in order
DigitsOf(text) == SelectSeq(text, LAMBDA c : c \in Digits)

\* id occurs in digits as a contiguous substring
OccursIn(id, digits) ==
    \E offset \in 0..(Len(digits) - Len(id)) :
        \A i \in 1..Len(id) : digits[offset + i] = id[i]

\* the positions, in the iteration order of the valid identifiers, of those
\* that occur in the digits of a text
ValidOccurring(text) ==
    {i \in 1..Len(getAllValidStudentIDs) :
        OccursIn(getAllValidStudentIDs[i], DigitsOf(text))}

\* C23: findValidStudentId(text) is null or a valid identifier that occurs
\* as a contiguous substring of the digits of text; it is null when no valid
\* identifier occurs in the digits.
C23_ResultIsValidSubstring ==
    evaluated.fn = "findValidStudentId"
    => /\ evaluated.result # NoString
          => /\ evaluated.result \in DOMAIN STUDENTS
             /\ OccursIn(evaluated.result, DigitsOf(evaluated.text))
       /\ ValidOccurring(evaluated.text) = {}
          => evaluated.result = NoString

\* an unregistered 7-digit identifier stands first in the digits, and no
\* registered one occurs: the result is null
C23_Witness ==
    /\ evaluated.fn = "findValidStudentId"
    /\ Len(DigitsOf(evaluated.text)) >= 7
    /\ SubSeq(DigitsOf(evaluated.text), 1, 7) = ID_9999999
    /\ evaluated.result = NoString

\* C24: when at least one valid identifier occurs in the digits of text,
\* findValidStudentId returns the first of them in the iteration order of
\* the valid identifiers, wherever they occur in the text.
C24_FirstValidInIterationOrder ==
    (evaluated.fn = "findValidStudentId" /\ ValidOccurring(evaluated.text) # {})
    => evaluated.result =
           getAllValidStudentIDs[
               CHOOSE i \in ValidOccurring(evaluated.text) :
                   \A j \in ValidOccurring(evaluated.text) : i <= j]

\* two valid identifiers occur, and the one returned stands later in the
\* text than the other
C24_Witness ==
    /\ evaluated.fn = "findValidStudentId"
    /\ Cardinality(ValidOccurring(evaluated.text)) = 2
    /\ evaluated.result # NoString
    /\ SubSeq(DigitsOf(evaluated.text), 1, Len(evaluated.result))
           # evaluated.result
    /\ \E id \in DOMAIN STUDENTS :
           /\ id # evaluated.result
           /\ Len(DigitsOf(evaluated.text)) >= Len(id)
           /\ SubSeq(DigitsOf(evaluated.text), 1, Len(id)) = id

\* twice the distance, in pixels, between the centre of a box and the centre
\* of the video
TwiceOffCentre(box) ==
    IF 2 * box.x + box.width >= VideoWidth
    THEN 2 * box.x + box.width - VideoWidth
    ELSE VideoWidth - (2 * box.x + box.width)

\* C26: checkFaceQuality returns true exactly when the video element is
\* present, the score is at least 0.5, the centre of the box is at most 35%
\* of the video width away from the centre of the video and the width of the
\* box is between 15% and 85% of the video width; a box further off centre
\* is rejected whatever its confidence.
C26_QualityExactly ==
    evaluated.fn = "checkFaceQuality"
    => /\ evaluated.result
          <=> /\ evaluated.present
              /\ evaluated.detection.score >= 50
              /\ 100 * TwiceOffCentre(evaluated.detection.box)
                     <= 2 * 35 * VideoWidth
              /\ 15 * VideoWidth <= 100 * evaluated.detection.box.width
              /\ 100 * evaluated.detection.box.width <= 85 * VideoWidth
       /\ 100 * TwiceOffCentre(evaluated.detection.box) > 2 * 35 * VideoWidth
          => ~evaluated.result

\* a box of full confidence and good width, just beyond 35% off centre, is
\* rejected
C26_Witness ==
    /\ evaluated.fn = "checkFaceQuality"
    /\ evaluated.present
    /\ evaluated.detection.score = 100
    /\ evaluated.detection.box.width = 200
    /\ evaluated.detection.box.x = 445
    /\ ~evaluated.result

\* C27: under both policies the comparator returns 0 when either descriptor
\* is absent or the lengths differ, and it leaves its inputs as they were.
C27_ZeroWhenNotComparable ==
    [][ApplyComparator
       => /\ evaluated'.a = evaluated.a
          /\ evaluated'.b = evaluated.b
          /\ \/ evaluated.a.absent
             \/ evaluated.b.absent
             \/ Len(evaluated.a.v) # Len(evaluated.b.v)
             => evaluated'.result.m = << >>]_vars

\* an absent descriptor has been compared with the empty array
C27_Witness ==
    /\ evaluated.fn = "comparator"
    /\ evaluated.a.absent
    /\ ~evaluated.b.absent
    /\ evaluated.b.v = << >>
    /\ evaluated.result.m = << >>

\* C28: for descriptors of equal length the comparator is symmetric and its
\* result lies between 0 and 1, under both policies.
C28_SymmetricWithinUnitInterval ==
    ( /\ evaluated.fn = "comparator"
      /\ ~evaluated.a.absent
      /\ ~evaluated.b.absent
      /\ Len(evaluated.a.v) = Len(evaluated.b.v) )
    => /\ evaluated.result = Similarity64(evaluated.b, evaluated.a)
       /\ evaluated.result.m = << >> \/ evaluated.result.sign = 1
       /\ ~Less64(FromInt64(1, 0), evaluated.result)

\* C29: under the cosine policy the comparator of a descriptor that is not
\* the zero vector with itself is 1.
C29_SelfMatchIsOne ==
    ( /\ evaluated.fn = "comparator"
      /\ policy = "cosine"
      /\ ~evaluated.a.absent
      /\ evaluated.a = evaluated.b
      /\ \E i \in 1..Len(evaluated.a.v) : evaluated.a.v[i] # 0 )
    => evaluated.result = FromInt64(1, 0)

\* the tick that returned detections makes no comparison: no face, several
\* faces, a face that fails the quality gate, or the throttle not elapsed
NoComparison(detections) ==
    \/ Len(detections) = 0
    \/ Len(detections) >= 2
    \/ ~checkFaceQuality(faceHook, detections[1])
    \/ now - faceHook.lastDetectionTime < MATCHING_THROTTLE

\* C31: a tick of the face loop that makes no comparison leaves the throttle
\* timestamp unchanged; the held similarity score is null after a tick that
\* found no face and unchanged after the other ticks without comparison.
C31_NoComparisonKeepsThrottle ==
    [][\A detections \in DetectionResults :
          (TickReturned(detections) /\ NoComparison(detections))
          => /\ faceHook'.lastDetectionTime = faceHook.lastDetectionTime
             /\ faceHook'.comparisons = faceHook.comparisons
             /\ IF Len(detections) = 0
                THEN faceHook'.similarityScore = null
                ELSE faceHook'.similarityScore = faceHook.similarityScore]_vars

\* the running loop has compared before, and a tick that found no face has
\* cleared the score
C31_Witness ==
    /\ faceHook.mounted
    /\ faceHook.detectionInterval
    /\ faceHook.comparisons > 0
    /\ faceHook.similarityScore = null
    /\ faceHook.status = <<"Please look at the camera">>

\* the record has an id, a name and a faceImage, none of them empty
HasRequiredData(record) ==
    /\ {"id", "name", "faceImage"} \subseteq DOMAIN record
    /\ record.id # << >>
    /\ record.name # ""
    /\ record.faceImage # ""

\* C32: addStudent called with a record that lacks id, name or faceImage
\* throws 'Missing required student data' and leaves the registry as it was;
\* with any other record the registry maps the record's id to the record and
\* every other entry is as before.
C32_AddStudentChecksThenStores ==
    evaluated.fn = "addStudent" =>
        LET record == evaluated.studentData
            before == evaluated.before
        IN  IF HasRequiredData(record)
            THEN /\ evaluated.threw = NoString
                 /\ DOMAIN STUDENTS = DOMAIN before \cup {record.id}
                 /\ STUDENTS[record.id] = record
                 /\ \A k \in DOMAIN before \ {record.id} : STUDENTS[k] = before[k]
            ELSE /\ evaluated.threw = <<"Missing required student data">>
                 /\ STUDENTS = before

\* a complete record has replaced the record its id was bound to, beside
\* another entry
C32_Witness ==
    /\ evaluated.fn = "addStudent"
    /\ evaluated.threw = NoString
    /\ evaluated.studentData.id \in DOMAIN evaluated.before
    /\ evaluated.before[evaluated.studentData.id] # evaluated.studentData
    /\ STUDENTS[evaluated.studentData.id] = evaluated.studentData
    /\ DOMAIN STUDENTS # {evaluated.studentData.id}

\* C33: in FaceRecognition of Fsite, no detection tick starts a detectAllFaces
\* call while the call of an earlier tick is outstanding: at most one call is
\* outstanding at any time.
C33_OneDetectionOutstanding == fsite.inFlight <= 1

C37_SuccessIsFullyBound ==
    currentStep = SUCCESS =>
        /\ studentId # NoString
        /\ studentData # null
        /\ verificationResult # null
        /\ verificationResult.studentId = studentId

\* the face loop has verified the student whose identifier was scanned
C37_Witness ==
    /\ currentStep = SUCCESS
    /\ view = "SuccessScreen"
    /\ verificationResult # null
    /\ verificationResult.studentId = studentId
    /\ studentData = STUDENTS[studentId]

\* C38: after any sequence of handleIDDetected, handleFaceVerified,
\* handleFaceFailed and reset calls, currentStep = verifying_face implies
\* that studentData and studentId are non-null.
C38_VerifyingHasStudent ==
    currentStep = VERIFYING_FACE =>
        /\ studentData # null
        /\ studentId # NoString

\* a registered identifier was detected after a reset
C38_Witness ==
    /\ currentStep = VERIFYING_FACE
    /\ lastCall.op = "handleIDDetected"
    /\ lastCall.from = SCANNING_ID
    /\ studentData # null

\* what the exact-containment stage alone gives for a text: the first valid
\* identifier, in their iteration order, that occurs in the digits, or null
ExactContainmentAlone(text) ==
    IF ValidOccurring(text) = {} THEN NoString
    ELSE getAllValidStudentIDs[
             CHOOSE i \in ValidOccurring(text) :
                 \A j \in ValidOccurring(text) : i <= j]

\* C39: the sliding-window stage and the first-seven-digits stage of
\* findValidStudentId never produce a result: for every text and registry
\* the result of the function is the result of the exact-containment stage
\* alone.
C39_LaterStagesAddNothing ==
    evaluated.fn = "findValidStudentId" =>
        evaluated.result = ExactContainmentAlone(evaluated.text)

\* the exact-containment stage found nothing in a text of more than seven
\* digits, the two later stages ran, and the result is null
C39_Witness ==
    /\ evaluated.fn = "findValidStudentId"
    /\ Len(DigitsOf(evaluated.text)) > 7
    /\ ValidOccurring(evaluated.text) = {}
    /\ evaluated.result = NoString

\* C40: in the distance-based face hook the throttle timestamp starts at the
\* time the hook is created and stays there until the first comparison, so
\* the first comparison (and hence any verification) of a hook comes no
\* sooner than MATCHING_THROTTLE after its creation, whatever the ticks detect.
C40_NoComparisonInFirstThrottle ==
    [][policy = "distance" =>
          /\ (~faceHook.mounted /\ faceHook'.mounted)
             => /\ faceHook'.lastDetectionTime = now
                /\ faceHook'.comparisons = 0
                /\ faceHook'.verifiedCalls = 0
          /\ (faceHook.mounted /\ faceHook'.mounted /\ faceHook.comparisons = 0
                 /\ faceHook'.comparisons = 0)
             => /\ faceHook'.lastDetectionTime = faceHook.lastDetectionTime
                /\ faceHook'.verifiedCalls = 0
          /\ (faceHook.comparisons = 0 /\ faceHook'.comparisons > 0)
             => now - faceHook.lastDetectionTime >= MATCHING_THROTTLE]_vars

\* the first comparison of a distance-based hook, made once the throttle
\* had elapsed since its creation
C40_Witness ==
    /\ policy = "distance"
    /\ faceHook.mounted
    /\ faceHook.comparisons = 1
    /\ faceHook.comparedAt = faceHook.lastDetectionTime
    /\ faceHook.comparedAt >= ClockStart + MATCHING_THROTTLE

\* C36: for any sequence of startScanning and stopScanning calls on the ID
\* scanner hook at most one scan interval timer is active at any time, and
\* when stopScanning has returned no scan timer is active.
C36_AtMostOneTimer ==
    [][/\ idHook'.timers <= 1
       /\ evaluated'.fn = "stopScanning" => idHook'.timers = 0]_vars

\* C35: once stopScanning (ID loop) or the cleanup of the hook (either loop)
\* has returned, the loop calls neither onIDDetected nor onVerified, and a
\* recognition or detection call that returns afterwards leaves the
\* controller state as it was.
C35_NoCallbackAfterStop ==
    [][/\ ~idHook.scanInterval
          => /\ idHook'.reported <= idHook.reported
             /\ idHook'.inFlight < idHook.inFlight => UNCHANGED ctrlVars
       /\ ~faceHook.mounted
          => /\ faceHook'.verifiedCalls <= faceHook.verifiedCalls
             /\ faceHook'.inFlight < faceHook.inFlight => UNCHANGED ctrlVars]_vars
====
